---- MODULE Spec2Model ----
(***************************************************************************)
(* Host-side plugin Client (client.go): Start / Client / Kill /            *)
(* CleanupClients, the background tasks Start launches, and the plugin      *)
(* subprocess seen through the Runner contract.                             *)
(***************************************************************************)
EXTENDS Integers, Sequences, FiniteSets, TLC

\* ---------------------------------------------------------------- bounds
MaxRunners == 2
MaxLines == 2
NumCallers == 2
MaxFile == 1
MaxHashed == 2
MaxAddr == 2
MaxPipe == 5
MaxStops == 3
MaxServes == 2
\* the size of the read buffer of logStderr, scaled down from 64 * 1024 to
\* let a pipe of MaxPipe bytes hold lines longer than the buffer
stdErrBufferSize == 3

Clients == {"c1", "c2"}
Gens == 1..MaxRunners
FirstGen == {1}
\* thread 0 of a client is the goroutine CleanupClients spawns for it
Callers == 1..NumCallers
Threads == 0..NumCallers

\* ------------------------------------------------- handshake line (text)
\* A line is a sequence of tokens; "|" is the delimiter byte, " " is white
\* space, every other token is a run of non-delimiter characters.
Line(a, b, c, d, e) == <<a, "|", b, "|", c, "|", d, "|", e>>
LineOk1 == Line("1", "1", "tcp", "h1:1", "grpc") \o <<" ">>
LineOk2 == Line("1", "2", "unix", "/s2", "grpc")
LineShort == <<"1", "|", "1", "|", "tcp">>
\* what a plugin may print first, and what it may print after that
FirstLines == {LineOk1, LineOk2, LineShort}
LaterLines == {LineOk2}

\* The sixth field of a line is empty or one token naming a blob of text:
\* its length in characters, whether it is unpadded standard base64, and then
\* the number of bytes it decodes to and whether these are a DER certificate.
\* base64.RawStdEncoding.EncodedLen(n)
EncodedLen(n) == (n \div 3) * 4 + (((n % 3) * 8 + 5) \div 6)
Base64Of(n, der) == [chars |-> EncodedLen(n), b64 |-> TRUE, bytes |-> n, der |-> der]
Blobs ==
    [tok \in {"pad36", "pad38", "pad50", "notcert60", "cert60", "junk60"} |->
        CASE tok = "pad36" -> Base64Of(36, FALSE)
          [] tok = "pad38" -> Base64Of(38, FALSE)
          [] tok = "pad50" -> Base64Of(50, FALSE)
          [] tok = "notcert60" -> Base64Of(60, FALSE)
          [] tok = "cert60" -> Base64Of(60, TRUE)
          [] OTHER -> [chars |-> 60, b64 |-> FALSE, bytes |-> 0, der |-> FALSE]]
\* handshake lines with a sixth field
CertLine(tok) == Line("1", "1", "tcp", "h1:1", "grpc") \o <<"|", tok>>
CertLines == {CertLine(tok) : tok \in DOMAIN Blobs}
               \cup {Line("1", "1", "tcp", "h1:1", "grpc") \o <<"|">>}

\* len(s) of a string given as tokens
RECURSIVE TextLen(_)
TextLen(s) ==
    IF s = <<>> THEN 0
    ELSE (IF Head(s) \in DOMAIN Blobs THEN Blobs[Head(s)].chars ELSE Len(Head(s)))
         + TextLen(Tail(s))

\* strings.TrimSpace
RECURSIVE TrimLeft(_)
TrimLeft(s) ==
    IF s # <<>> /\ Head(s) = " " THEN TrimLeft(Tail(s)) ELSE s
RECURSIVE TrimRight(_)
TrimRight(s) ==
    IF s # <<>> /\ s[Len(s)] = " " THEN TrimRight(SubSeq(s, 1, Len(s) - 1)) ELSE s
TrimSpace(s) == TrimRight(TrimLeft(s))

\* strings.SplitN(s, "|", n), n > 0: at most n parts, the last one unsplit
SplitN(s, n) ==
    LET seps == {i \in 1..Len(s) : s[i] = "|"}
        \* the j-th delimiter from the left
        cut(j) == CHOOSE i \in seps : Cardinality({x \in seps : x < i}) = j - 1
        count == IF Cardinality(seps) < n - 1 THEN Cardinality(seps) + 1 ELSE n
        from(j) == IF j = 1 THEN 1 ELSE cut(j - 1) + 1
        to(j) == IF j = count THEN Len(s) ELSE cut(j) - 1
    IN  [j \in 1..count |-> SubSeq(s, from(j), to(j))]

HandshakeParts == 6
\* line = strings.TrimSpace(line); parts := strings.SplitN(line, "|", 6),
\* for each value Start can receive from linesCh ("" when it is closed)
PartsOf ==
    [line \in FirstLines \cup LaterLines \cup CertLines \cup {<<>>} |->
        SplitN(TrimSpace(line), HandshakeParts)]
Parts(line) == PartsOf[line]

\* strconv.Atoi on a one-token string; -1 stands for the parse error
Atoi(str) ==
    IF str = <<"1">> THEN 1 ELSE IF str = <<"2">> THEN 2 ELSE -1

\* ------------------------------------------------------------- addresses
\* the nil net.Addr
NoAddr == [net |-> "", addr |-> <<>>]
\* net.ResolveTCPAddr / net.ResolveUnixAddr
ResolveOk(network, a) ==
    IF network = "tcp" THEN a \in {<<"h1:1">>} ELSE TRUE

\* ------------------------------------------------- SecureConfig (digests)
\* An executable file as os.Open and io.Copy see it: readable or not, and its
\* bytes. Files of at most MaxFile bytes.
File(readable, bytes) == [readable |-> readable, bytes |-> bytes]
Unreadable == File(FALSE, <<>>)
FileA == File(TRUE, <<"a">>)
FileB == File(TRUE, <<"b">>)
FileEmpty == File(TRUE, <<>>)
Contents == UNION {[1..n -> {"a", "b"}] : n \in 0..MaxFile}
Files == {Unreadable} \cup {File(TRUE, bytes) : bytes \in Contents}

\* A hash.Hash value: whether it is set (not nil) and the bytes written to it
\* since it was made. Write appends; at most MaxHashed bytes are kept, which
\* is more than any file whose digest is a configured checksum has.
NilHash == [set |-> FALSE, written |-> <<>>]
NewHash == [set |-> TRUE, written |-> <<>>]
HashWrite(h, bytes) ==
    LET w == h.written \o bytes
    IN  [h EXCEPT !.written = SubSeq(w, 1, IF Len(w) > MaxHashed THEN MaxHashed ELSE Len(w))]

\* Hash.Sum(nil): the digest of the bytes written so far. Digests of different
\* byte strings differ: the digest is represented by the string it digests.
Sum(h) == <<"digest">> \o h.written
\* the checksum a host configures for an executable with the given bytes
ChecksumOf(bytes) == Sum(HashWrite(NewHash, bytes))

\* subtle.ConstantTimeCompare(x, y) == 1
ConstantTimeCompare(x, y) == x = y

\* SecureConfig.Check(filePath) on the SecureConfig s = [Checksum, Hash], the
\* path naming file: the result pair and the Hash afterwards
Check(s, file) ==
    IF Len(s.Checksum) = 0
    THEN [ok |-> FALSE, err |-> "ErrSecureConfigNoChecksum", Hash |-> s.Hash]
    ELSE IF ~s.Hash.set
    THEN [ok |-> FALSE, err |-> "ErrSecureConfigNoHash", Hash |-> s.Hash]
    ELSE IF ~file.readable
    THEN [ok |-> FALSE, err |-> "err_open", Hash |-> s.Hash]
    ELSE LET h == HashWrite(s.Hash, file.bytes)
         IN  [ok |-> ConstantTimeCompare(Sum(h), s.Checksum), err |-> "nil",
              Hash |-> h]

\* ------------------------------------------------------------ TLS config
\* A *tls.Config: nil or set, with its RootCAs and ClientCAs pools (the name
\* of the certificate in the pool, "none" for a nil pool)
NoTLS == [set |-> FALSE, RootCAs |-> "none", ClientCAs |-> "none"]
\* a TLS config the host supplies
HostTLS == [set |-> TRUE, RootCAs |-> "host", ClientCAs |-> "host"]
\* the TLS config Start makes for AutoMTLS
AutoTLS == [set |-> TRUE, RootCAs |-> "none", ClientCAs |-> "none"]

\* loadServerCert(cert) with c.config.TLSConfig = tls: base64-decode, parse,
\* then assign the pool to TLSConfig.RootCAs and TLSConfig.ClientCAs
loadServerCert(tls, cert) ==
    LET blob == Blobs[cert[1]]
    IN  IF ~(Len(cert) = 1 /\ cert[1] \in DOMAIN Blobs /\ blob.b64)
        THEN [res |-> "err_base64", tls |-> tls]
        ELSE IF ~blob.der THEN [res |-> "err_parse_certificate", tls |-> tls]
        ELSE IF ~tls.set THEN [res |-> "panic", tls |-> tls]
        ELSE [res |-> "ok",
              tls |-> [tls EXCEPT !.RootCAs = cert[1], !.ClientCAs = cert[1]]]

CertMinLen == 50

\* --------------------------------------------------------- configuration
NoPlugins == "none"
VP1 == [v \in {1} |-> "set1"]
VP2 == [v \in {2} |-> "set2"]
VP12 == [v \in {1, 2} |-> IF v = 1 THEN "set1" ELSE "set2"]

\* a ReattachConfig: the protocol version and address of the running plugin,
\* and whether it runs in test mode
ReattachTo(test) ==
    [ProtocolVersion |-> 2, Addr |-> [net |-> "unix", addr |-> <<"/re">>],
     Test |-> test]

Cfg(cmd, re, rf, sec, vp, grp, man) ==
    [Cmd |-> cmd, Reattach |-> re, RunnerFunc |-> rf, SecureConfig |-> sec,
     VersionedPlugins |-> vp, Group |-> grp, Managed |-> man,
     \* SecureConfig.Checksum and SecureConfig.Hash, when SecureConfig is set
     Checksum |-> IF sec THEN ChecksumOf(FileA.bytes) ELSE <<>>,
     Hash |-> IF sec THEN NewHash ELSE NilHash,
     TLSConfig |-> NoTLS, AutoMTLS |-> FALSE,
     \* *Reattach, when Reattach is set
     ReattachConfig |-> ReattachTo(re)]

\* launch configurations the host constructs a Client with
Configs ==
    { Cfg(FALSE, FALSE, TRUE, FALSE, VP12, TRUE, FALSE),
      Cfg(TRUE, FALSE, FALSE, TRUE, VP2, FALSE, FALSE),
      Cfg(FALSE, TRUE, FALSE, TRUE, VP1, FALSE, FALSE),
      Cfg(FALSE, TRUE, FALSE, FALSE, VP12, FALSE, FALSE),
      Cfg(FALSE, FALSE, FALSE, FALSE, VP1, FALSE, FALSE) }

\* ------------------------------------------------------------------ state
VARIABLES
    config,             \* Client.config
    address,            \* Client.address (NoAddr = nil)
    runner,             \* Client.runner (0 = nil, else the runner's index)
    rpcClient,          \* Client.client (0 = nil, else the handle's number)
    exited,             \* Client.exited
    processKilled,      \* Client.processKilled
    negotiatedVersion,  \* Client.negotiatedVersion
    negotiatedPlugins,  \* Client.negotiatedPlugins
    socketDir,          \* Client.unixSocketCfg.socketDir (0 = "")
    mu,                 \* Client.m: 0 free, else the thread inside Start
    doneCtx,            \* Client.doneCtx: index of the context it refers to
    ctxCancel,          \* Client.ctxCancel: index of the context it cancels
    clientWG,           \* Client.clientWaitGroup counter
    stderrWG,           \* Client.stderrWaitGroup counter
    Killed,             \* package variable Killed
    managedClients,     \* package variable managedClients
    ngen,               \* runners / socket directories obtained so far
    rpcNews,            \* RPC client handles constructed (newGRPCClient)
    proc,               \* per runner: "none", "failed_id", "failed_noid", "running", "exited"
    stdout,             \* per runner: lines written to the stdout pipe, not yet scanned
    canWrite,           \* per runner: lines the process may still write
    dirs,               \* per runner: "none", "exists", "removed" (temporary socket dir)
    logStderr,          \* per runner: stderr relay task: "none", "run", "done"
    waiter,             \* per runner: process-wait task
    waiterCancel,       \* per runner: the cancel function its defer captured
    scanner,            \* per runner: stdout scanner task: "none", "scan", "done"
    chClosed,           \* per runner: linesCh closed
    drain,              \* per runner: drain task: "none", "run", "done"
    ctxDone,            \* per context: cancelled
    sRunner,            \* Start's local runner
    pc,                 \* per thread: position
    op,                 \* per thread: the public method it is in
    kRunner, kDir,      \* per thread: Kill's locals runner and hostSocketDir
    ret,                \* the call that returned in the last step, and its result
    cleanupPc, cleanupWG,              \* CleanupClients: position, its WaitGroup
    grpcServer,         \* the plugin's GRPCServer: its config record
    stderrRelay         \* one run of logStderr: the pipe, what is left to read
                        \* of it, the writes and log events so far, the local
                        \* continuation, and where the loop is

clientVars == <<config, address, runner, rpcClient, exited, processKilled,
                negotiatedVersion, negotiatedPlugins, socketDir, mu, doneCtx,
                ctxCancel, clientWG, stderrWG>>
procVars == <<proc, stdout, canWrite>>
taskVars == <<logStderr, waiter, waiterCancel, scanner, chClosed, drain, ctxDone>>
threadVars == <<pc, op, kRunner, kDir>>
globalVars == <<Killed, managedClients, cleanupPc, cleanupWG>>
otherVars == <<grpcServer, stderrRelay>>
hostVars == <<clientVars, procVars, taskVars, threadVars, globalVars,
              ngen, rpcNews, dirs, sRunner>>
vars == <<hostVars, ret, otherVars>>

\* ------------------------------------------------------------ GRPCServer
\* Texts are sequences of one-character strings. An address is a text over
\* AddrChars: a letter, the colon of host:port, and a double quote, the one
\* character of the three that JSON escapes.
AddrChars == {"a", ":", "\""}
AddrTexts == UNION {[1..n -> AddrChars] : n \in 0..MaxAddr}

\* GRPCServerConfig and its JSON field names
GRPCServerConfig(out, err) == [StdoutAddr |-> out, StderrAddr |-> err]
StdoutKey == <<"s", "t", "d", "o", "u", "t", "_", "a", "d", "d", "r">>
StderrKey == <<"s", "t", "d", "e", "r", "r", "_", "a", "d", "d", "r">>

\* encoding/json: a string value is quoted, a quote or backslash in it escaped
RECURSIVE Escaped(_)
Escaped(str) ==
    IF str = <<>> THEN <<>>
    ELSE (IF Head(str) \in {"\"", "\\"} THEN <<"\\", Head(str)>> ELSE <<Head(str)>>)
         \o Escaped(Tail(str))
Quoted(str) == <<"\"">> \o Escaped(str) \o <<"\"">>

\* json.Marshal of a GRPCServerConfig
Marshal(cfg) ==
    <<"{">> \o Quoted(StdoutKey) \o <<":">> \o Quoted(cfg.StdoutAddr) \o <<",">>
            \o Quoted(StderrKey) \o <<":">> \o Quoted(cfg.StderrAddr) \o <<"}">>

\* json.NewEncoder(&buf).Encode(v): the JSON text of v and a newline
Encode(cfg) == Marshal(cfg) \o <<"\n">>

\* GRPCServer.Config(): the contents of the buffer Encode wrote to
Config(srv) == Encode(srv.config)

\* The host's side of the round trip. The base64 alphabet of StdEncoding and
\* the printable ASCII characters from the space (32) to the tilde (126),
\* the grave accent (96) by its name:
Base64Alphabet == <<
    "A", "B", "C", "D", "E", "F", "G", "H", "I", "J", "K", "L", "M", "N", "O", "P",
    "Q", "R", "S", "T", "U", "V", "W", "X", "Y", "Z", "a", "b", "c", "d", "e", "f",
    "g", "h", "i", "j", "k", "l", "m", "n", "o", "p", "q", "r", "s", "t", "u", "v",
    "w", "x", "y", "z", "0", "1", "2", "3", "4", "5", "6", "7", "8", "9", "+", "/" >>
Ascii == <<
    " ", "!", "\"", "#", "$", "%", "&", "'", "(", ")", "*", "+", ",", "-", ".", "/",
    "0", "1", "2", "3", "4", "5", "6", "7", "8", "9", ":", ";", "<", "=", ">", "?",
    "@", "A", "B", "C", "D", "E", "F", "G", "H", "I", "J", "K", "L", "M", "N", "O",
    "P", "Q", "R", "S", "T", "U", "V", "W", "X", "Y", "Z", "[", "\\", "]", "^", "_",
    "grave", "a", "b", "c", "d", "e", "f", "g", "h", "i", "j", "k", "l", "m", "n", "o",
    "p", "q", "r", "s", "t", "u", "v", "w", "x", "y", "z", "{", "|", "}", "~" >>
Sextet(ch) == (CHOOSE i \in 1..Len(Base64Alphabet) : Base64Alphabet[i] = ch) - 1
Chr(b) == IF b \in 32..126 THEN Ascii[b - 31] ELSE IF b = 10 THEN "\n" ELSE "other"

\* the bytes of base64 text whose length is a multiple of four
RECURSIVE DecodeQuads(_)
DecodeQuads(str) ==
    IF str = <<>> THEN <<>>
    ELSE LET v(i) == IF str[i] = "=" THEN 0 ELSE Sextet(str[i])
             n == v(1) * 262144 + v(2) * 4096 + v(3) * 64 + v(4)
             three == <<n \div 65536, (n \div 256) % 256, n % 256>>
             kept == IF str[3] = "=" THEN 1 ELSE IF str[4] = "=" THEN 2 ELSE 3
         IN  SubSeq(three, 1, kept) \o DecodeQuads(SubSeq(str, 5, Len(str)))

\* base64.StdEncoding.DecodeString: carriage returns and newlines are skipped,
\* any other character outside the alphabet is an error, padding may only end
\* the text
Base64Decode(text) ==
    LET str == SelectSeq(text, LAMBDA ch : ch \notin {"\r", "\n"})
        n == Len(str)
        legal == /\ n % 4 = 0
                 /\ \A i \in 1..n :
                       \/ \E j \in 1..Len(Base64Alphabet) : Base64Alphabet[j] = str[i]
                       \/ str[i] = "=" /\ i >= n - 1 /\ i >= 3 /\ str[n] = "="
    IN  IF legal THEN [ok |-> TRUE, text |-> [i \in 1..Len(DecodeQuads(str)) |->
                                                 Chr(DecodeQuads(str)[i])]]
        ELSE [ok |-> FALSE, text |-> <<>>]

\* the string value whose opening quote has been read: acc is what was read
\* of it, i the next character of text
RECURSIVE ScanString(_, _, _)
ScanString(text, i, acc) ==
    IF i > Len(text) THEN [ok |-> FALSE, val |-> <<>>, next |-> i]
    ELSE IF text[i] = "\"" THEN [ok |-> TRUE, val |-> acc, next |-> i + 1]
    ELSE IF text[i] = "\\"
         THEN IF i + 1 > Len(text) THEN [ok |-> FALSE, val |-> <<>>, next |-> i]
              ELSE ScanString(text, i + 2, Append(acc, text[i + 1]))
    ELSE ScanString(text, i + 1, Append(acc, text[i]))

HasAt(text, i, lit) ==
    /\ i + Len(lit) - 1 <= Len(text)
    /\ SubSeq(text, i, i + Len(lit) - 1) = lit

\* json.Unmarshal into a GRPCServerConfig, for the texts Marshal writes (the
\* two fields in the order of the struct, no white space but a final newline)
Unmarshal(text) ==
    LET bad == [ok |-> FALSE, config |-> GRPCServerConfig(<<>>, <<>>)]
        open1 == <<"{">> \o Quoted(StdoutKey) \o <<":", "\"">>
        open2 == <<",">> \o Quoted(StderrKey) \o <<":", "\"">>
    IN  IF ~HasAt(text, 1, open1) THEN bad
        ELSE LET v1 == ScanString(text, Len(open1) + 1, <<>>)
             IN  IF ~v1.ok \/ ~HasAt(text, v1.next, open2) THEN bad
                 ELSE LET v2 == ScanString(text, v1.next + Len(open2), <<>>)
                      IN  IF v2.ok /\ SubSeq(text, v2.next, Len(text))
                                         \in {<<"}">>, <<"}", "\n">>}
                          THEN [ok |-> TRUE,
                                config |-> GRPCServerConfig(v1.val, v2.val)]
                          ELSE bad

\* The GRPCServer as constructed, its config record holding the pair of broker
\* addresses: no grpc.Server and no broker yet (server "none", broker 0),
\* DoneCh open. serve is where the goroutine running Serve is, stop where the
\* thread calling Stop or GracefulStop is; the counters count calls made.
Server(out, err) ==
    [config |-> GRPCServerConfig(out, err),
     server |-> "none", broker |-> 0, DoneCh |-> "open",
     serve |-> "idle", serveErr |-> "nil", logged |-> FALSE, stop |-> "idle",
     serves |-> 0, stops |-> 0, serverStops |-> 0, brokerCloses |-> 0,
     doneCloses |-> 0]
NoServer == Server(<<>>, <<>>)
Servers == {Server(out, err) : out \in AddrTexts, err \in AddrTexts}

\* ---------------------------------------------------------- stderr relay
\* The bytes a plugin may write to its stderr pipe: text, the braces of a JSON
\* object, carriage return and newline
PipeChars == {"x", "{", "}", "\r", "\n"}
Pipes == UNION {[1..n -> PipeChars] : n \in 0..MaxPipe}

\* reader.ReadLine() of a bufio.Reader of stdErrBufferSize bytes on a pipe
\* with the bytes in left before its end: a line up to and without its "\n"
\* or "\r\n"; the first stdErrBufferSize bytes as a prefix when no newline is
\* among them, a final "\r" left for the next read; what is left before the
\* end of the pipe as a line; then io.EOF
ReadLine(in) ==
    LET n == Len(in)
        nl == IF \E i \in 1..n : in[i] = "\n"
              THEN CHOOSE i \in 1..n : in[i] = "\n" /\ \A j \in 1..(i - 1) : in[j] # "\n"
              ELSE 0
    IN  IF n = 0
        THEN [line |-> <<>>, isPrefix |-> FALSE, err |-> "EOF", rest |-> <<>>]
        ELSE IF nl # 0 /\ nl <= stdErrBufferSize
        THEN LET drop == IF nl > 1 /\ in[nl - 1] = "\r" THEN 2 ELSE 1
             IN  [line |-> SubSeq(in, 1, nl - drop), isPrefix |-> FALSE,
                  err |-> "nil", rest |-> SubSeq(in, nl + 1, n)]
        ELSE IF n >= stdErrBufferSize
        THEN LET back == IF in[stdErrBufferSize] = "\r" THEN 1 ELSE 0
             IN  [line |-> SubSeq(in, 1, stdErrBufferSize - back), isPrefix |-> TRUE,
                  err |-> "nil", rest |-> SubSeq(in, stdErrBufferSize - back + 1, n)]
        ELSE [line |-> in, isPrefix |-> FALSE, err |-> "nil", rest |-> <<>>]

\* parseJSON succeeds on a line that is a JSON object
ParsesAsJSON(line) == line = <<"{", "}">>

\* the level logStderr infers from the prefix of a line that is not JSON
LevelOf(line) ==
    LET has(prefix) == HasAt(line, 1, prefix)
    IN  IF has(<<"[", "T", "R", "A", "C", "E", "]">>) THEN "debug"
        ELSE IF has(<<"[", "D", "E", "B", "U", "G", "]">>) THEN "debug"
        ELSE IF has(<<"[", "I", "N", "F", "O", "]">>) THEN "info"
        ELSE IF has(<<"[", "W", "A", "R", "N", "]">>) THEN "warn"
        ELSE IF has(<<"[", "E", "R", "R", "O", "R", "]">>) THEN "error"
        ELSE "debug"

\* what the relay does, in order: c.config.Stderr.Write(data), a log event
\* for a line (parsed: from the entry parseJSON returned), and the l.Error of
\* a failed read
Written(data) == [kind |-> "write", level |-> "", parsed |-> FALSE, data |-> data]
Logged(level, parsed, data) ==
    [kind |-> "log", level |-> level, parsed |-> parsed, data |-> data]
ReadFailure == [kind |-> "failure", level |-> "error", parsed |-> FALSE, data |-> <<>>]

\* the relay takes a line for a piece of a longer one
PrefixOnly(isPrefix, continuation) == isPrefix
Continues(isPrefix, continuation) == isPrefix \/ continuation

\* a run of logStderr on pipe, and the state in which no run is followed
Relay(pipe) ==
    [pipe |-> pipe, in |-> pipe, out |-> <<>>, continuation |-> FALSE, pc |-> "run"]
NoRelay == [Relay(<<>>) EXCEPT !.pc = "none"]

\* What a returning call is recorded with, besides its result: the select case
\* Start took, the line it received, what the error names, whether the process
\* had exited without writing a line, the runner the call obtained or worked
\* on, whether the call invoked runner.Kill on it, the file Check was given,
\* and the text Config returned
NoDetail == [case |-> "none", line |-> <<>>, info |-> <<>>, early |-> FALSE,
             runner |-> 0, killed |-> FALSE, file |-> Unreadable, text |-> <<>>]

Ret(c, t, o, res, addr, detail) ==
    [c |-> c, t |-> t, op |-> o, res |-> res, addr |-> addr, detail |-> detail]
NoRet == Ret("", 0, "none", "none", NoAddr, NoDetail)

\* NewClient for every client of cfgs (a function Clients -> Configs)
InitClients(cfgs) ==
    /\ config = cfgs
    /\ address = [c \in Clients |-> NoAddr]
    /\ runner = [c \in Clients |-> 0]
    /\ rpcClient = [c \in Clients |-> 0]
    /\ exited = [c \in Clients |-> FALSE]
    /\ processKilled = [c \in Clients |-> FALSE]
    /\ negotiatedVersion = [c \in Clients |-> 0]
    /\ negotiatedPlugins = [c \in Clients |-> NoPlugins]
    /\ socketDir = [c \in Clients |-> 0]
    /\ mu = [c \in Clients |-> 0]
    /\ doneCtx = [c \in Clients |-> 0]
    /\ ctxCancel = [c \in Clients |-> 0]
    /\ clientWG = [c \in Clients |-> 0]
    /\ stderrWG = [c \in Clients |-> 0]
    /\ Killed = 0
    /\ managedClients = {c \in Clients : cfgs[c].Managed}
    /\ ngen = [c \in Clients |-> 0]
    /\ rpcNews = [c \in Clients |-> 0]
    /\ proc = [c \in Clients |-> [g \in Gens |-> "none"]]
    /\ stdout = [c \in Clients |-> [g \in Gens |-> <<>>]]
    /\ canWrite = [c \in Clients |-> [g \in Gens |-> 0]]
    /\ dirs = [c \in Clients |-> [g \in Gens |-> "none"]]
    /\ logStderr = [c \in Clients |-> [g \in Gens |-> "none"]]
    /\ waiter = [c \in Clients |-> [g \in Gens |-> "none"]]
    /\ waiterCancel = [c \in Clients |-> [g \in Gens |-> 0]]
    /\ scanner = [c \in Clients |-> [g \in Gens |-> "none"]]
    /\ chClosed = [c \in Clients |-> [g \in Gens |-> FALSE]]
    /\ drain = [c \in Clients |-> [g \in Gens |-> "none"]]
    /\ ctxDone = [c \in Clients |-> [g \in Gens |-> FALSE]]
    /\ sRunner = [c \in Clients |-> 0]
    /\ pc = [c \in Clients |-> [t \in Threads |-> "idle"]]
    /\ op = [c \in Clients |-> [t \in Threads |-> "none"]]
    /\ kRunner = [c \in Clients |-> [t \in Threads |-> 0]]
    /\ kDir = [c \in Clients |-> [t \in Threads |-> 0]]
    /\ ret = NoRet
    /\ cleanupPc = "idle"
    /\ cleanupWG = 0

\* the clients of cfgs in a host where no GRPCServer is looked at and no
\* stderr pipe is followed byte by byte
InitWith(cfgs) ==
    /\ InitClients(cfgs)
    /\ grpcServer = NoServer
    /\ stderrRelay = NoRelay

\* ------------------------------------------------------- calls by the host
\* thread t moves to position p; no call returns in this step
Goto(c, t, p) ==
    /\ pc' = [pc EXCEPT ![c][t] = p]
    /\ ret' = NoRet
    /\ UNCHANGED otherVars

\* the call thread t is in returns res (with addr, detail) to its caller; the
\* goroutine CleanupClients spawned for the client then calls wg.Done()
Return(c, t, res, addr, detail) ==
    /\ pc' = [pc EXCEPT ![c][t] = IF t = 0 THEN "done" ELSE "idle"]
    /\ op' = [op EXCEPT ![c][t] = "none"]
    /\ kRunner' = [kRunner EXCEPT ![c][t] = 0]
    /\ kDir' = [kDir EXCEPT ![c][t] = 0]
    /\ ret' = Ret(c, t, op[c][t], res, addr, detail)
    /\ cleanupWG' = IF t = 0 THEN cleanupWG - 1 ELSE cleanupWG
    /\ UNCHANGED <<Killed, managedClients, cleanupPc, otherVars>>

\* a host thread calls Start(), Client() or Kill()
Call(c, t, o) ==
    /\ pc[c][t] = "idle"
    /\ Goto(c, t, IF o = "Kill" THEN "kill" ELSE "start")
    /\ op' = [op EXCEPT ![c][t] = o]
    /\ UNCHANGED <<clientVars, procVars, taskVars, globalVars, ngen, rpcNews, dirs,
                   sRunner, kRunner, kDir>>

\* ------------------------------------------------------------ Client.Start
\* What the caller of Start does with Start's result: Start() returns it,
\* Client() goes on to dispense, Kill() goes on to close or to force-kill.
\* A panic unwinds through the caller.
AfterStart(c, t, res, addr, detail) ==
    IF op[c][t] = "Start" \/ res = "panic" \/ (op[c][t] = "Client" /\ res # "ok")
    THEN Return(c, t, res, IF op[c][t] = "Start" THEN addr ELSE NoAddr, detail)
    ELSE /\ Goto(c, t, IF res = "ok" THEN "dispense" ELSE "k_force")
         /\ UNCHANGED <<op, kRunner, kDir, globalVars>>

\* a Start that never takes the cached-address return
AddressNeverCached(c) == FALSE

\* c.address != nil
AddressCached(c) == address[c] # NoAddr

\* the mutually-exclusive-options check and the SecureConfig/Reattach check
ConfigError(cfg) ==
    LET n == (IF cfg.Cmd THEN 1 ELSE 0) + (IF cfg.Reattach THEN 1 ELSE 0)
             + (IF cfg.RunnerFunc THEN 1 ELSE 0)
    IN  IF n # 1 THEN "err_exactly_one"
        ELSE IF cfg.SecureConfig /\ cfg.Reattach THEN "err_secure_and_reattach"
        ELSE "ok"

AtStart(c, t) == pc[c][t] = "start" /\ mu[c] = 0

StartCached(c, t) ==
    /\ AtStart(c, t)
    /\ AddressCached(c)
    /\ AfterStart(c, t, "ok", address[c], NoDetail)
    /\ UNCHANGED <<clientVars, procVars, taskVars, ngen, rpcNews, dirs, sRunner>>

StartBadConfig(c, t) ==
    /\ AtStart(c, t)
    /\ ~AddressCached(c)
    /\ ConfigError(config[c]) # "ok"
    /\ AfterStart(c, t, ConfigError(config[c]), NoAddr, NoDetail)
    /\ UNCHANGED <<clientVars, procVars, taskVars, ngen, rpcNews, dirs, sRunner>>

\* Host thread t calls config.SecureConfig.Check(filePath) itself, the path
\* naming file: the Hash of the SecureConfig takes the file's bytes
SecureConfigCheck(c, t, file) ==
    LET r == Check(config[c], file)
    IN  /\ config[c].SecureConfig
        /\ config' = [config EXCEPT ![c].Hash = r.Hash]
        /\ ret' = Ret(c, t, "Check",
                      IF r.err # "nil" THEN r.err ELSE IF r.ok THEN "true" ELSE "false",
                      NoAddr, [NoDetail EXCEPT !.file = file])
        /\ UNCHANGED <<address, runner, rpcClient, exited, processKilled,
                       negotiatedVersion, negotiatedPlugins, socketDir, mu, doneCtx,
                       ctxCancel, clientWG, stderrWG, procVars, taskVars, threadVars,
                       globalVars, ngen, rpcNews, dirs, sRunner, otherVars>>

\* One turn of the loop of logStderr in which ReadLine returns a line
LogStderrLine ==
    LET r == ReadLine(stderrRelay.in)
        piece == Continues(r.isPrefix, stderrRelay.continuation)
        events ==
            IF piece
            THEN <<Written(r.line), Logged("debug", FALSE, r.line)>>
                 \o (IF ~r.isPrefix THEN <<Written(<<"\n">>)>> ELSE <<>>)
            ELSE <<Written(r.line), Written(<<"\n">>),
                   IF ParsesAsJSON(r.line) THEN Logged("debug", TRUE, r.line)
                   ELSE Logged(LevelOf(r.line), FALSE, r.line)>>
    IN  /\ stderrRelay.pc = "run"
        /\ r.err = "nil"
        /\ stderrRelay' = [stderrRelay EXCEPT
                             !.in = r.rest,
                             !.out = @ \o events,
                             !.continuation = IF piece THEN r.isPrefix ELSE @]
        /\ ret' = NoRet
        /\ UNCHANGED <<hostVars, grpcServer>>

\* ReadLine returns io.EOF or another error at the end of the pipe: logStderr
\* returns
LogStderrReturn ==
    /\ stderrRelay.pc = "run"
    /\ ReadLine(stderrRelay.in).err = "EOF"
    /\ \E err \in {"EOF", "err_read"} :
          stderrRelay' = [stderrRelay EXCEPT
                            !.pc = "done",
                            !.out = IF err = "EOF" THEN @ ELSE Append(@, ReadFailure)]
    /\ ret' = NoRet
    /\ UNCHANGED <<hostVars, grpcServer>>

\* GRPCServer.Init(): the grpc.Server and the broker are made; registering a
\* plugin may fail
ServerInit ==
    /\ grpcServer.server = "none"
    /\ grpcServer' = [grpcServer EXCEPT !.server = "ready", !.broker = 1]
    /\ \E ok \in BOOLEAN :
          ret' = Ret("", 1, "Init", IF ok THEN "ok" ELSE "err_registering",
                     NoAddr, NoDetail)
    /\ UNCHANGED <<hostVars, stderrRelay>>

\* Serve(lis) is called: s.server.Serve(lis) blocks in its accept loop
ServeAccept ==
    /\ grpcServer.server # "none"
    /\ grpcServer.serve \in {"idle", "done"}
    /\ grpcServer.serves < MaxServes
    /\ grpcServer' = [grpcServer EXCEPT !.serve = "accept", !.serves = @ + 1]
    /\ ret' = NoRet
    /\ UNCHANGED <<hostVars, stderrRelay>>

\* s.server.Serve(lis) returns: with an error at any time (the listener
\* failed, the server was stopped before), without one once the server has
\* been stopped
ServeReturn ==
    /\ grpcServer.serve = "accept"
    /\ \E e \in {"nil", "err_serve"} :
          /\ e = "nil" => grpcServer.server = "stopped"
          /\ grpcServer' = [grpcServer EXCEPT !.serve = "returned", !.serveErr = e,
                                              !.logged = FALSE]
    /\ ret' = NoRet
    /\ UNCHANGED <<hostVars, stderrRelay>>

\* a Serve that logs nothing
ServeNeverLogs(err) == FALSE

\* if err != nil { s.logger.Error("grpc server", "error", err) }
ServeLogs(err) == err # "nil"

\* the rest of Serve: the error is logged, then the deferred close(s.DoneCh),
\* which panics on a channel that is closed
ServeDone ==
    /\ grpcServer.serve = "returned"
    /\ grpcServer' = [grpcServer EXCEPT
                        !.serve = "done",
                        !.logged = ServeLogs(grpcServer.serveErr),
                        !.DoneCh = "closed",
                        !.doneCloses = IF grpcServer.DoneCh = "open" THEN @ + 1 ELSE @]
    /\ ret' = Ret("", 0, "Serve",
                  IF grpcServer.DoneCh = "open" THEN "ok" ELSE "panic",
                  NoAddr, NoDetail)
    /\ UNCHANGED <<hostVars, stderrRelay>>

\* Stop() or GracefulStop() is called on the initialised server, no other
\* such call being under way: s.server.Stop() or s.server.GracefulStop()
StopServer(kind) ==
    /\ grpcServer.server # "none"
    /\ grpcServer.stop = "idle"
    /\ grpcServer.stops < MaxStops
    /\ grpcServer' = [grpcServer EXCEPT !.server = "stopped", !.stop = kind,
                                        !.stops = @ + 1, !.serverStops = @ + 1]
    /\ ret' = NoRet
    /\ UNCHANGED <<hostVars, stderrRelay>>

\* a Stop that finds a broker every time
BrokerAlwaysPresent(srv) == TRUE

\* s.broker != nil
BrokerPresent(srv) == srv.broker # 0

\* the rest of Stop and GracefulStop: s.broker.Close() and s.broker = nil when
\* there is a broker
StopBroker ==
    /\ grpcServer.stop # "idle"
    /\ grpcServer' = [grpcServer EXCEPT
                        !.stop = "idle",
                        !.broker = 0,
                        !.brokerCloses = IF BrokerPresent(grpcServer) THEN @ + 1 ELSE @]
    /\ ret' = Ret("", 1, grpcServer.stop, "ok", NoAddr, NoDetail)
    /\ UNCHANGED <<hostVars, stderrRelay>>

\* The plugin's side calls Config() on its GRPCServer
ServerConfig(t) ==
    /\ ret' = Ret("", t, "Config", "ok", NoAddr,
                  [NoDetail EXCEPT !.text = Config(grpcServer)])
    /\ UNCHANGED <<hostVars, otherVars>>

\* the file the path of the executable names when Start verifies it
ExeFiles == {Unreadable, FileA, FileB}

\* SecureConfig.Check on the executable fails or reports a mismatch
StartChecksumFail(c, t) ==
    /\ AtStart(c, t)
    /\ ~AddressCached(c)
    /\ ConfigError(config[c]) = "ok"
    /\ config[c].SecureConfig
    /\ \E file \in ExeFiles :
          LET r == Check(config[c], file)
          IN  /\ r.err # "nil" \/ ~r.ok
              /\ config' = [config EXCEPT ![c].Hash = r.Hash]
              /\ AfterStart(c, t, IF r.err # "nil" THEN "err_verifying_checksum"
                                   ELSE "err_checksums_do_not_match",
                            NoAddr, NoDetail)
    /\ UNCHANGED <<address, runner, rpcClient, exited, processKilled,
                   negotiatedVersion, negotiatedPlugins, socketDir, mu, doneCtx,
                   ctxCancel, clientWG, stderrWG, procVars, taskVars, ngen,
                   rpcNews, dirs, sRunner>>

\* Start between the validation and the Runner: with a SecureConfig, Check on
\* the executable returns (true, nil)
\* AutoMTLS: then the client certificate is generated and c.config.TLSConfig
\* is replaced
Verified(c) ==
    LET tls == IF config[c].AutoMTLS THEN AutoTLS ELSE config[c].TLSConfig
    IN  IF config[c].SecureConfig
        THEN \E file \in ExeFiles :
                LET r == Check(config[c], file)
                IN  /\ r.err = "nil" /\ r.ok
                    /\ config' = [config EXCEPT ![c].Hash = r.Hash,
                                                ![c].TLSConfig = tls]
        ELSE config' = [config EXCEPT ![c].TLSConfig = tls]

\* Start got past validation and verification and may obtain a Runner
CanObtain(c, t) ==
    /\ AtStart(c, t)
    /\ ~AddressCached(c)
    /\ ConfigError(config[c]) = "ok"
    /\ Verified(c)

\* AutoMTLS: generateCert or tls.X509KeyPair returns an error
StartAutoMTLSFail(c, t) ==
    /\ AtStart(c, t)
    /\ ~AddressCached(c)
    /\ ConfigError(config[c]) = "ok"
    /\ config[c].AutoMTLS
    /\ IF config[c].SecureConfig
       THEN \E file \in ExeFiles :
               LET r == Check(config[c], file)
               IN  /\ r.err = "nil" /\ r.ok
                   /\ config' = [config EXCEPT ![c].Hash = r.Hash]
       ELSE UNCHANGED config
    /\ AfterStart(c, t, "err_client_certificate", NoAddr, NoDetail)
    /\ UNCHANGED <<address, runner, rpcClient, exited, processKilled,
                   negotiatedVersion, negotiatedPlugins, socketDir, mu, doneCtx,
                   ctxCancel, clientWG, stderrWG, procVars, taskVars, ngen,
                   rpcNews, dirs, sRunner>>

\* os.MkdirTemp or NewCmdRunner returns an error
StartObtainFail(c, t) ==
    /\ CanObtain(c, t)
    /\ IF config[c].RunnerFunc
       THEN /\ socketDir' = [socketDir EXCEPT ![c] = 0]
            /\ AfterStart(c, t, "err_mkdirtemp", NoAddr, NoDetail)
       ELSE /\ AfterStart(c, t, "err_newcmdrunner", NoAddr, NoDetail)
            /\ UNCHANGED socketDir
    /\ UNCHANGED <<address, runner, rpcClient, exited, processKilled,
                   negotiatedVersion, negotiatedPlugins, mu, doneCtx, ctxCancel,
                   clientWG, stderrWG, procVars, taskVars, ngen, rpcNews, dirs,
                   sRunner>>

\* os.MkdirTemp makes the directory of runner g, then setGroupWritable or
\* RunnerFunc returns an error
StartRunnerFuncFail(c, t, g) ==
    /\ CanObtain(c, t)
    /\ config[c].RunnerFunc
    /\ g = ngen[c] + 1
    /\ \E e \in {"err_runnerfunc"} \cup
                (IF config[c].Group THEN {"err_set_group_writable"} ELSE {}) :
          AfterStart(c, t, e, NoAddr, NoDetail)
    /\ ngen' = [ngen EXCEPT ![c] = g]
    /\ dirs' = [dirs EXCEPT ![c][g] = "exists"]
    /\ socketDir' = [socketDir EXCEPT ![c] = g]
    /\ UNCHANGED <<address, runner, rpcClient, exited, processKilled,
                   negotiatedVersion, negotiatedPlugins, mu, doneCtx, ctxCancel,
                   clientWG, stderrWG, procVars, taskVars, rpcNews, sRunner>>

\* the Runner is obtained and stored in c.runner (with its socket directory
\* when RunnerFunc made it); g is the next runner the environment provides
ObtainRunner(c, g) ==
    /\ g = ngen[c] + 1
    /\ ngen' = [ngen EXCEPT ![c] = g]
    /\ runner' = [runner EXCEPT ![c] = g]
    /\ IF config[c].RunnerFunc
       THEN /\ dirs' = [dirs EXCEPT ![c][g] = "exists"]
            /\ socketDir' = [socketDir EXCEPT ![c] = g]
       ELSE UNCHANGED <<dirs, socketDir>>

\* runner.Start(startCtx) returns an error
StartRunnerStartFail(c, t, g) ==
    /\ CanObtain(c, t)
    /\ ObtainRunner(c, g)
    /\ \E p \in {"failed_id", "failed_noid"} : proc' = [proc EXCEPT ![c][g] = p]
    /\ AfterStart(c, t, "err_runner_start", NoAddr, [NoDetail EXCEPT !.runner = g])
    /\ UNCHANGED <<address, rpcClient, exited, processKilled,
                   negotiatedVersion, negotiatedPlugins, mu, doneCtx, ctxCancel,
                   clientWG, stderrWG, stdout, canWrite, taskVars, rpcNews, sRunner>>

\* The process-wait task's first statement, `defer c.ctxCancel()`, reads
\* c.ctxCancel without the lock, at some moment before the task waits. Start
\* writes c.ctxCancel = g: the new task captures g; a task of an earlier runner
\* that has not waited yet has captured what it read before, or captures g now.
CapturedCancel(c, g) ==
    { wc \in [Gens -> 0..MaxRunners] :
        \A h \in Gens :
            IF h = g THEN wc[h] = g
            ELSE IF waiter[c][h] = "wait" THEN wc[h] \in {waiterCancel[c][h], g}
            ELSE wc[h] = waiterCancel[c][h] }

\* runner.Start succeeds: the context is made and the three tasks are launched
\* (the drain task is counted in clientWaitGroup, and launched when Start leaves)
StartLaunch(c, t, g) ==
    /\ CanObtain(c, t)
    /\ ObtainRunner(c, g)
    /\ proc' = [proc EXCEPT ![c][g] = "running"]
    /\ canWrite' = [canWrite EXCEPT ![c][g] = MaxLines]
    /\ sRunner' = [sRunner EXCEPT ![c] = g]
    /\ doneCtx' = [doneCtx EXCEPT ![c] = g]
    /\ ctxCancel' = [ctxCancel EXCEPT ![c] = g]
    /\ logStderr' = [logStderr EXCEPT ![c][g] = "run"]
    /\ waiter' = [waiter EXCEPT ![c][g] = "wait"]
    /\ \E wc \in CapturedCancel(c, g) :
          waiterCancel' = [waiterCancel EXCEPT ![c] = wc]
    /\ scanner' = [scanner EXCEPT ![c][g] = "scan"]
    /\ clientWG' = [clientWG EXCEPT ![c] = @ + 4]
    /\ stderrWG' = [stderrWG EXCEPT ![c] = @ + 1]
    /\ mu' = [mu EXCEPT ![c] = t]
    /\ Goto(c, t, "select")
    /\ UNCHANGED <<address, rpcClient, exited, processKilled,
                   negotiatedVersion, negotiatedPlugins, stdout,
                   chClosed, drain, ctxDone, rpcNews,
                   globalVars, op, kRunner, kDir>>

\* checkProtoVersion(protoVersion) against c.config.VersionedPlugins
checkProtoVersion(vp, protoVersion) ==
    LET serverVersion == Atoi(protoVersion)
    IN  IF serverVersion = -1
        THEN [err |-> "err_parsing_protocol_version", version |-> 0,
              plugins |-> NoPlugins, detail |-> <<>>]
        ELSE IF serverVersion \in DOMAIN vp
        THEN [err |-> "ok", version |-> serverVersion, plugins |-> vp[serverVersion],
              detail |-> <<>>]
        ELSE [err |-> "err_incompatible_api_version", version |-> 0,
              plugins |-> NoPlugins, detail |-> <<serverVersion, DOMAIN vp>>]

\* the protocol version string Start hands to checkProtoVersion for the line
ProbedVersion(parts) == <<"1">>

\* The `case line := <-linesCh` branch of Start's select, up to the point where
\* it leaves the select: what it returns (or that it panics) and whether the
\* negotiated fields were assigned.
\* pthOk: runner.PluginToHost translated the pair (it is the identity then).
\* cfg is c.config; the result carries c.config.TLSConfig as the branch leaves
\* it.
Handshake(cfg, line, pthOk) ==
    LET parts == Parts(line)
        chk == checkProtoVersion(cfg.VersionedPlugins, ProbedVersion(parts))
        out(res, addr, detail, neg, tls) ==
            [res |-> res, addr |-> addr, detail |-> detail, negotiated |-> neg,
             version |-> chk.version, plugins |-> chk.plugins, tls |-> tls]
        fail(res) == out(res, NoAddr, <<>>, TRUE, cfg.TLSConfig)
        \* the address is resolved: the server certificate, if there is one
        resolved(addr) ==
            IF Len(parts) >= 6 /\ TextLen(parts[6]) > CertMinLen
            THEN LET r == loadServerCert(cfg.TLSConfig, parts[6])
                 IN  CASE r.res = "ok" -> out("ok", addr, <<>>, TRUE, r.tls)
                       [] r.res = "panic" -> fail("panic")
                       [] OTHER -> fail("err_parsing_server_cert")
            ELSE out("ok", addr, <<>>, TRUE, cfg.TLSConfig)
    IN  IF chk.err # "ok" THEN out(chk.err, NoAddr, chk.detail, FALSE, cfg.TLSConfig)
        ELSE IF Len(parts) < 4 THEN fail("panic")
        ELSE IF ~pthOk THEN fail("err_plugin_to_host")
        ELSE LET network == parts[3]
                 addr == parts[4]
             IN  CASE network = <<"tcp">> ->
                        IF ResolveOk("tcp", addr)
                        THEN resolved([net |-> "tcp", addr |-> addr])
                        ELSE fail("err_tcp_address")
                   [] network = <<"unix">> ->
                        IF ResolveOk("unix", addr)
                        THEN resolved([net |-> "unix", addr |-> addr])
                        ELSE fail("err_unix_address")
                   [] OTHER -> fail("err_unknown_address_type")

\* the scanner task has a line to send on linesCh: scanner.Scan() returns true
\* for the next line of the pipe, and the send waits for a receiver
LineReady(c, g) == scanner[c][g] = "scan" /\ stdout[c][g] # <<>>

\* a completion context that always counts as done
DoneCtxAlwaysDone(c) == TRUE

\* c.doneCtx.Done() is closed
DoneCtxDone(c) == doneCtx[c] # 0 /\ ctxDone[c][doneCtx[c]]

\* Start's select without the start-timeout timer
SelectReadyNoTimer(c) ==
    (IF DoneCtxDone(c) THEN {"done"} ELSE {})
    \cup (IF LineReady(c, sRunner[c]) \/ chClosed[c][sRunner[c]] THEN {"line"} ELSE {})

\* the cases of Start's select that are ready
SelectReady(c) ==
    {"timeout"}
    \cup (IF DoneCtxDone(c) THEN {"done"} ELSE {})
    \cup (IF LineReady(c, sRunner[c]) \/ chClosed[c][sRunner[c]] THEN {"line"} ELSE {})

\* the value received from linesCh: the scanner's line, or "" once it is closed
Received(c) ==
    IF chClosed[c][sRunner[c]] THEN <<>> ELSE Head(stdout[c][sRunner[c]])

\* what the select case k makes of Start
SelectOutcome(c, k, pthOk) ==
    CASE k = "timeout" ->
            [res |-> "err_timeout", addr |-> NoAddr, detail |-> <<>>,
             negotiated |-> FALSE, version |-> 0, plugins |-> NoPlugins,
             tls |-> config[c].TLSConfig]
      [] k = "done" ->
            [res |-> "err_exited_before_connect", addr |-> NoAddr, detail |-> <<>>,
             negotiated |-> FALSE, version |-> 0, plugins |-> NoPlugins,
             tls |-> config[c].TLSConfig]
      [] OTHER -> Handshake(config[c], Received(c), pthOk)

\* Start's deferred cleanup kills the runner when Start fails or panics
KillOnFailure(res) == res # "ok"

\* runner.Kill: the process is gone when it returns
RunnerKill(p) == IF p = "running" THEN "exited" ELSE p

\* a Start that leaves without launching the drain task
DrainNotLaunched(d, g) == d

\* Start's deferred `go func() { for range linesCh {} }()` for runner g
LaunchDrain(d, g) == [d EXCEPT ![g] = "run"]

\* Start's select and everything after it, deferred functions included
StartSelect(c, t) ==
    /\ pc[c][t] = "select"
    /\ mu[c] = t
    /\ \E k \in SelectReady(c), pthOk \in BOOLEAN :
        LET g == sRunner[c]
            o == SelectOutcome(c, k, pthOk)
        IN  /\ (pthOk = FALSE) => (k = "line" /\ o.res = "err_plugin_to_host")
            /\ stdout' = [stdout EXCEPT ![c][g] =
                            IF k = "line" /\ ~chClosed[c][g] THEN Tail(@) ELSE @]
            /\ IF o.negotiated
               THEN /\ negotiatedPlugins' = [negotiatedPlugins EXCEPT ![c] = o.plugins]
                    /\ negotiatedVersion' = [negotiatedVersion EXCEPT ![c] = o.version]
               ELSE UNCHANGED <<negotiatedPlugins, negotiatedVersion>>
            /\ address' = [address EXCEPT ![c] = o.addr]
            /\ config' = [config EXCEPT ![c].TLSConfig = o.tls]
            /\ drain' = [drain EXCEPT ![c] = LaunchDrain(@, g)]
            /\ proc' = [proc EXCEPT ![c][g] =
                          IF KillOnFailure(o.res) THEN RunnerKill(@) ELSE @]
            /\ canWrite' = [canWrite EXCEPT ![c][g] =
                              IF KillOnFailure(o.res) THEN 0 ELSE @]
            /\ AfterStart(c, t, o.res, o.addr,
                          [case |-> k,
                           line |-> IF k = "line" THEN Received(c) ELSE <<>>,
                           info |-> o.detail,
                           early |-> proc[c][g] = "exited" /\ stdout[c][g] = <<>>,
                           runner |-> g,
                           killed |-> KillOnFailure(o.res)])
    /\ mu' = [mu EXCEPT ![c] = 0]
    /\ sRunner' = [sRunner EXCEPT ![c] = 0]
    /\ UNCHANGED <<runner, rpcClient, exited, processKilled, socketDir,
                   doneCtx, ctxCancel, clientWG, stderrWG,
                   logStderr, waiter, waiterCancel, scanner, chClosed, ctxDone,
                   ngen, rpcNews, dirs>>

\* ------------------------------------------------------ the plugin process
\* the process writes a line to its standard output
ProcWrite(c, g, line) ==
    /\ proc[c][g] = "running"
    /\ canWrite[c][g] > 0
    /\ line \in (IF canWrite[c][g] = MaxLines THEN FirstLines \cup CertLines
                 ELSE LaterLines)
    /\ stdout' = [stdout EXCEPT ![c][g] = Append(@, line)]
    /\ canWrite' = [canWrite EXCEPT ![c][g] = @ - 1]
    /\ ret' = NoRet
    /\ UNCHANGED otherVars
    /\ UNCHANGED <<clientVars, proc, taskVars, threadVars, globalVars,
                   ngen, rpcNews, dirs, sRunner>>

\* the process exits by itself
ProcExit(c, g) ==
    /\ proc[c][g] = "running"
    /\ proc' = [proc EXCEPT ![c][g] = "exited"]
    /\ canWrite' = [canWrite EXCEPT ![c][g] = 0]
    /\ ret' = NoRet
    /\ UNCHANGED otherVars
    /\ UNCHANGED <<clientVars, stdout, taskVars, threadVars,
                   globalVars, ngen, rpcNews, dirs, sRunner>>

\* ------------------------------------------------- tasks launched by Start
\* logStderr: reads to the end of the stream, then both WaitGroups are Done
LogStderrEOF(c, g) ==
    /\ logStderr[c][g] = "run"
    /\ proc[c][g] = "exited"
    /\ logStderr' = [logStderr EXCEPT ![c][g] = "done"]
    /\ stderrWG' = [stderrWG EXCEPT ![c] = @ - 1]
    /\ clientWG' = [clientWG EXCEPT ![c] = @ - 1]
    /\ ret' = NoRet
    /\ UNCHANGED otherVars
    /\ UNCHANGED <<config, address, runner, rpcClient, exited, processKilled,
                   negotiatedVersion, negotiatedPlugins, socketDir, mu, doneCtx,
                   ctxCancel, procVars, waiter, waiterCancel, scanner, chClosed, drain, ctxDone, threadVars, globalVars,
                   ngen, rpcNews, dirs, sRunner>>

\* a process-wait task that does not wait for the stderr relay
StderrWaitGroupNoWait(c) == TRUE

\* c.stderrWaitGroup.Wait() has returned
StderrWaitGroupWait(c) == stderrWG[c] = 0

\* process-wait task: c.stderrWaitGroup.Wait(), then runner.Wait returns
WaiterWait(c, g) ==
    /\ waiter[c][g] = "wait"
    /\ StderrWaitGroupWait(c)
    /\ proc[c][g] = "exited"
    /\ waiter' = [waiter EXCEPT ![c][g] = "lock"]
    /\ ret' = NoRet
    /\ UNCHANGED otherVars
    /\ UNCHANGED <<clientVars, procVars, logStderr, waiterCancel, scanner, chClosed, drain, ctxDone, threadVars, globalVars, ngen, rpcNews,
                   dirs, sRunner>>

\* c.m.Lock(); c.exited = true; then the deferred Unlock and clientWaitGroup.Done
WaiterExited(c, g) ==
    /\ waiter[c][g] = "lock"
    /\ mu[c] = 0
    /\ exited' = [exited EXCEPT ![c] = TRUE]
    /\ clientWG' = [clientWG EXCEPT ![c] = @ - 1]
    /\ waiter' = [waiter EXCEPT ![c][g] = "cancel"]
    /\ ret' = NoRet
    /\ UNCHANGED otherVars
    /\ UNCHANGED <<config, address, runner, rpcClient, processKilled,
                   negotiatedVersion, negotiatedPlugins, socketDir, mu, doneCtx,
                   ctxCancel, stderrWG, procVars, logStderr, waiterCancel, scanner,
                   chClosed, drain, ctxDone, threadVars, globalVars,
                   ngen, rpcNews, dirs, sRunner>>

\* the deferred c.ctxCancel()
WaiterCancel(c, g) ==
    /\ waiter[c][g] = "cancel"
    /\ waiter' = [waiter EXCEPT ![c][g] = "done"]
    /\ ctxDone' = [ctxDone EXCEPT ![c][waiterCancel[c][g]] = TRUE]
    /\ waiterCancel' = [waiterCancel EXCEPT ![c][g] = 0]
    /\ ret' = NoRet
    /\ UNCHANGED otherVars
    /\ UNCHANGED <<clientVars, procVars, logStderr, scanner, chClosed, drain, threadVars, globalVars, ngen, rpcNews, dirs, sRunner>>

\* scanner.Scan() returns false: close(linesCh), clientWaitGroup.Done
ScannerEOF(c, g) ==
    /\ scanner[c][g] = "scan"
    /\ stdout[c][g] = <<>>
    /\ proc[c][g] = "exited"
    /\ scanner' = [scanner EXCEPT ![c][g] = "done"]
    /\ chClosed' = [chClosed EXCEPT ![c][g] = TRUE]
    /\ clientWG' = [clientWG EXCEPT ![c] = @ - 1]
    /\ ret' = NoRet
    /\ UNCHANGED otherVars
    /\ UNCHANGED <<config, address, runner, rpcClient, exited, processKilled,
                   negotiatedVersion, negotiatedPlugins, socketDir, mu, doneCtx,
                   ctxCancel, stderrWG, procVars, logStderr, waiter, waiterCancel,
                   drain, ctxDone, threadVars, globalVars, ngen, rpcNews,
                   dirs, sRunner>>

\* the scanner task scans the next line and the drain task receives it
DrainReceive(c, g) ==
    /\ drain[c][g] = "run"
    /\ LineReady(c, g)
    /\ stdout' = [stdout EXCEPT ![c][g] = Tail(@)]
    /\ ret' = NoRet
    /\ UNCHANGED otherVars
    /\ UNCHANGED <<clientVars, proc, canWrite, taskVars, threadVars, globalVars,
                   ngen, rpcNews, dirs, sRunner>>

\* the drain task's range loop ends when linesCh is closed
DrainEnd(c, g) ==
    /\ drain[c][g] = "run"
    /\ chClosed[c][g]
    /\ drain' = [drain EXCEPT ![c][g] = "done"]
    /\ clientWG' = [clientWG EXCEPT ![c] = @ - 1]
    /\ ret' = NoRet
    /\ UNCHANGED otherVars
    /\ UNCHANGED <<config, address, runner, rpcClient, exited, processKilled,
                   negotiatedVersion, negotiatedPlugins, socketDir, mu, doneCtx,
                   ctxCancel, stderrWG, procVars, logStderr, waiter, waiterCancel,
                   scanner, chClosed, ctxDone, threadVars, globalVars,
                   ngen, rpcNews, dirs, sRunner>>

\* ----------------------------------------------------------- Client.Client
\* a Client() that never finds a handle to reuse
ClientNeverCached(c) == FALSE

\* c.client != nil
ClientCached(c) == rpcClient[c] # 0

\* the second half of Client(): return the cached handle or make one
Dispense(c, t) ==
    /\ pc[c][t] = "dispense"
    /\ mu[c] = 0
    /\ \E ok \in BOOLEAN :
        /\ ClientCached(c) => ok
        /\ IF ClientCached(c)
           THEN UNCHANGED <<rpcClient, rpcNews>>
           ELSE IF ok
           THEN /\ rpcNews' = [rpcNews EXCEPT ![c] = @ + 1]
                /\ rpcClient' = [rpcClient EXCEPT ![c] = rpcNews[c] + 1]
           ELSE /\ rpcClient' = [rpcClient EXCEPT ![c] = 0]
                /\ UNCHANGED rpcNews
        /\ IF op[c][t] = "Client"
           THEN Return(c, t, IF ok THEN "ok" ELSE "err_new_grpc_client", NoAddr, NoDetail)
           ELSE /\ Goto(c, t, IF ok THEN "k_close" ELSE "k_force")
                /\ UNCHANGED <<op, kRunner, kDir, globalVars>>
    /\ UNCHANGED <<config, address, runner, exited, processKilled, negotiatedVersion,
                   negotiatedPlugins, socketDir, mu, doneCtx, ctxCancel, clientWG,
                   stderrWG, procVars, taskVars, ngen, dirs, sRunner>>

\* ------------------------------------------------------------- Client.Kill
\* runner.ID() == ""
RunnerIDEmpty(p) == p = "failed_noid"

\* a Kill that never takes its early return
AlwaysSomethingToKill(c) == FALSE

\* Kill's first check: no runner, or a runner without ID
NothingToKill(c) == runner[c] = 0 \/ RunnerIDEmpty(proc[c][runner[c]])

\* Kill reads runner, address and socket directory under the lock; with no
\* runner or no ID there is nothing to kill
KillEnter(c, t) ==
    /\ pc[c][t] = "kill"
    /\ mu[c] = 0
    /\ IF NothingToKill(c)
       THEN Return(c, t, "nothing_to_kill", NoAddr, NoDetail)
       ELSE /\ kRunner' = [kRunner EXCEPT ![c][t] = runner[c]]
            /\ kDir' = [kDir EXCEPT ![c][t] = socketDir[c]]
            /\ Goto(c, t, IF address[c] # NoAddr THEN "start" ELSE "k_force")
            /\ UNCHANGED <<op, globalVars>>
    /\ UNCHANGED <<clientVars, procVars, taskVars, ngen, rpcNews, dirs, sRunner>>

\* client.Close(): graceful iff it returns no error
KillClose(c, t) ==
    /\ pc[c][t] = "k_close"
    /\ \E closed \in BOOLEAN : Goto(c, t, IF closed THEN "k_grace" ELSE "k_force")
    /\ UNCHANGED <<clientVars, procVars, taskVars, globalVars, ngen, rpcNews, dirs,
                   sRunner, op, kRunner, kDir>>

\* the grace select: c.doneCtx is done, Kill returns through its deferred part
KillGraceDone(c, t) ==
    /\ pc[c][t] = "k_grace"
    /\ DoneCtxDone(c)
    /\ Goto(c, t, "k_wait")
    /\ UNCHANGED <<clientVars, procVars, taskVars, globalVars, ngen, rpcNews, dirs,
                   sRunner, op, kRunner, kDir>>

\* the grace select: the grace window elapsed
KillGraceTimeout(c, t) ==
    /\ pc[c][t] = "k_grace"
    /\ Goto(c, t, "k_force")
    /\ UNCHANGED <<clientVars, procVars, taskVars, globalVars, ngen, rpcNews, dirs,
                   sRunner, op, kRunner, kDir>>

\* runner.Kill on the runner Kill read
KillForce(c, t) ==
    /\ pc[c][t] = "k_force"
    /\ proc' = [proc EXCEPT ![c][kRunner[c][t]] = RunnerKill(@)]
    /\ canWrite' = [canWrite EXCEPT ![c][kRunner[c][t]] = 0]
    /\ Goto(c, t, "k_mark")
    /\ UNCHANGED <<clientVars, stdout, taskVars, globalVars, ngen, rpcNews,
                   dirs, sRunner, op, kRunner, kDir>>

\* c.processKilled = true, under the lock
KillMark(c, t) ==
    /\ pc[c][t] = "k_mark"
    /\ mu[c] = 0
    /\ processKilled' = [processKilled EXCEPT ![c] = TRUE]
    /\ Goto(c, t, "k_wait")
    /\ UNCHANGED <<config, address, runner, rpcClient, exited, negotiatedVersion,
                   negotiatedPlugins, socketDir, mu, doneCtx, ctxCancel, clientWG,
                   stderrWG, procVars, taskVars, globalVars, ngen, rpcNews, dirs,
                   sRunner, op, kRunner, kDir>>

\* a Kill whose deferred part does not wait for the tasks
ClientWaitGroupNoWait(c) == TRUE

\* c.clientWaitGroup.Wait() has returned
ClientWaitGroupWait(c) == clientWG[c] = 0

\* os.RemoveAll(hostSocketDir) when hostSocketDir is not ""
RemoveAll(d, dir) == IF dir # 0 THEN [d EXCEPT ![dir] = "removed"] ELSE d

\* deferred part of Kill: wait for the tasks, then remove the socket directory
KillWait(c, t) ==
    /\ pc[c][t] = "k_wait"
    /\ ClientWaitGroupWait(c)
    /\ dirs' = [dirs EXCEPT ![c] = RemoveAll(@, kDir[c][t])]
    /\ Goto(c, t, "k_clear")
    /\ UNCHANGED <<clientVars, procVars, taskVars, globalVars, ngen, rpcNews,
                   sRunner, op, kRunner, kDir>>

\* deferred part of Kill: c.runner = nil under the lock, and Kill returns
KillClear(c, t) ==
    /\ pc[c][t] = "k_clear"
    /\ mu[c] = 0
    /\ runner' = [runner EXCEPT ![c] = 0]
    /\ Return(c, t, "killed", NoAddr, [NoDetail EXCEPT !.runner = kRunner[c][t]])
    /\ UNCHANGED <<config, address, rpcClient, exited, processKilled,
                   negotiatedVersion, negotiatedPlugins, socketDir, mu, doneCtx,
                   ctxCancel, clientWG, stderrWG, procVars, taskVars, ngen, rpcNews,
                   dirs, sRunner>>

\* ----------------------------------------------------------- CleanupClients
\* a CleanupClients that goes on to the Kill calls without storing the flag
CleanupKilledNotStored ==
    /\ cleanupPc = "idle"
    /\ cleanupPc' = "spawn"
    /\ ret' = NoRet
    /\ UNCHANGED otherVars
    /\ UNCHANGED <<clientVars, procVars, taskVars, threadVars, Killed,
                   managedClients, cleanupWG, ngen, rpcNews, dirs, sRunner>>

\* atomic.StoreUint32(&Killed, 1)
CleanupSetKilled ==
    /\ cleanupPc = "idle"
    /\ Killed' = 1
    /\ cleanupPc' = "spawn"
    /\ ret' = NoRet
    /\ UNCHANGED otherVars
    /\ UNCHANGED <<clientVars, procVars, taskVars, threadVars,
                   managedClients, cleanupWG, ngen, rpcNews, dirs, sRunner>>

\* one goroutine per managed client, each calling client.Kill()
CleanupSpawn ==
    /\ cleanupPc = "spawn"
    /\ cleanupWG' = Cardinality(managedClients)
    /\ pc' = [c \in Clients |->
                IF c \in managedClients THEN [pc[c] EXCEPT ![0] = "kill"] ELSE pc[c]]
    /\ op' = [c \in Clients |->
                IF c \in managedClients THEN [op[c] EXCEPT ![0] = "Kill"] ELSE op[c]]
    /\ cleanupPc' = "wait"
    /\ ret' = NoRet
    /\ UNCHANGED otherVars
    /\ UNCHANGED <<clientVars, procVars, taskVars, Killed, managedClients,
                   ngen, rpcNews, dirs, sRunner, kRunner, kDir>>

\* a CleanupClients that returns without waiting for the Kill calls
CleanupNoWait ==
    /\ cleanupPc = "wait"
    /\ cleanupPc' = "returned"
    /\ ret' = NoRet
    /\ UNCHANGED otherVars
    /\ UNCHANGED <<clientVars, procVars, taskVars, threadVars, Killed,
                   managedClients, cleanupWG, ngen, rpcNews, dirs, sRunner>>

\* wg.Wait() returns and CleanupClients returns
CleanupWait ==
    /\ cleanupPc = "wait"
    /\ cleanupWG = 0
    /\ cleanupPc' = "returned"
    /\ ret' = NoRet
    /\ UNCHANGED otherVars
    /\ UNCHANGED <<clientVars, procVars, taskVars, threadVars, Killed,
                   managedClients, cleanupWG, ngen, rpcNews, dirs, sRunner>>

\* ----------------------------------------------------------- specifications
\* the steps of Start that do not obtain a runner
StartStep(c, t) ==
    \/ StartCached(c, t)
    \/ StartBadConfig(c, t)
    \/ StartChecksumFail(c, t)
    \/ StartObtainFail(c, t)
    \/ StartSelect(c, t)

\* the steps of Start in which the environment is asked for runner g
ObtainStep(c, t, g) ==
    \/ StartRunnerFuncFail(c, t, g)
    \/ StartRunnerStartFail(c, t, g)
    \/ StartLaunch(c, t, g)

KillStep(c, t) ==
    \/ KillEnter(c, t)
    \/ KillClose(c, t)
    \/ KillGraceDone(c, t)
    \/ KillGraceTimeout(c, t)
    \/ KillForce(c, t)
    \/ KillMark(c, t)
    \/ KillWait(c, t)
    \/ KillClear(c, t)

TaskStep(c, g) ==
    \/ LogStderrEOF(c, g)
    \/ WaiterWait(c, g)
    \/ WaiterExited(c, g)
    \/ WaiterCancel(c, g)
    \/ ScannerEOF(c, g)
    \/ DrainReceive(c, g)
    \/ DrainEnd(c, g)

ProcStep(c, g) ==
    \/ \E line \in FirstLines \cup LaterLines : ProcWrite(c, g, line)
    \/ ProcExit(c, g)

\* what host thread t may do with client c when the environment provides the
\* runners of gens
HostStep(c, t, gens) ==
    \/ \E o \in {"Start", "Client", "Kill"} : Call(c, t, o)
    \/ StartStep(c, t)
    \/ \E g \in gens : ObtainStep(c, t, g)
    \/ Dispense(c, t)
    \/ KillStep(c, t)

\* one Client, not managed
Init == \E cfg \in Configs : InitWith([c \in Clients |-> cfg])

\* NumCallers host threads share the client; the environment provides one runner
Next ==
    \/ \E t \in Callers : HostStep("c1", t, FirstGen)
    \/ \E g \in Gens : TaskStep("c1", g) \/ ProcStep("c1", g)

Spec == Init /\ [][Next]_vars

\* one host thread uses the client; the environment provides MaxRunners runners
NextRestart ==
    \/ HostStep("c1", 1, Gens)
    \/ \E g \in Gens : TaskStep("c1", g) \/ ProcStep("c1", g)

SpecRestart == Init /\ [][NextRestart]_vars

\* Two clients built from the RunnerFunc configuration, c1 managed and c2
\* managed or not
ManagedCfg(man) == Cfg(FALSE, FALSE, TRUE, FALSE, VP12, TRUE, man)

InitCleanup ==
    \E man \in BOOLEAN :
        InitWith([c \in Clients |-> ManagedCfg(c = "c1" \/ man)])

\* the host's main thread (thread 1 of every client) is in no call
HostIdle == cleanupPc \in {"idle", "returned"} /\ \A c \in Clients : pc[c][1] = "idle"

\* The host's main thread starts the clients one call at a time and calls
\* CleanupClients once; a plugin prints a handshake line or stays silent, and
\* may exit.
NextCleanup ==
    \/ \E c \in Clients :
          \/ HostIdle /\ Call(c, 1, "Start")
          \/ StartCached(c, 1) \/ StartObtainFail(c, 1) \/ StartSelect(c, 1)
          \/ \E g \in FirstGen : ObtainStep(c, 1, g)
          \/ StartCached(c, 0) \/ Dispense(c, 0) \/ KillStep(c, 0)
          \/ TaskStep(c, 1)
          \/ ProcWrite(c, 1, LineOk1) \/ ProcExit(c, 1)
    \/ HostIdle /\ CleanupSetKilled
    \/ CleanupSpawn
    \/ CleanupWait

SpecCleanup == InitCleanup /\ [][NextCleanup]_vars

\* Scheduling: a host thread inside a call keeps running (it is never forced
\* to make a call), a timer that is armed fires, and every task keeps running.
\* The process is under no obligation to write or to exit.
InCall(c, t, gens) ==
    \/ StartStep(c, t)
    \/ \E g \in gens : ObtainStep(c, t, g)
    \/ Dispense(c, t)
    \/ KillStep(c, t)

Fairness ==
    /\ \A t \in Callers : WF_vars(InCall("c1", t, FirstGen))
    /\ \A g \in Gens : WF_vars(TaskStep("c1", g))

SpecFair == Init /\ [][Next]_vars /\ Fairness

\* SecureConfig values a host may build: any checksum of a file or the empty
\* one, a fresh Hash or none
SecureConfigs ==
    {[Cfg(TRUE, FALSE, FALSE, TRUE, VP1, FALSE, FALSE)
        EXCEPT !.Checksum = sum, !.Hash = h] :
        sum \in {<<>>} \cup {ChecksumOf(bytes) : bytes \in Contents},
        h \in {NilHash, NewHash}}

InitCheck == \E cfg \in SecureConfigs : InitWith([c \in Clients |-> cfg])

\* host threads call Check on one SecureConfig again and again, the file at
\* the path being any file each time
NextCheck == \E t \in Callers, file \in Files : SecureConfigCheck("c1", t, file)

SpecCheck == InitCheck /\ [][NextCheck]_vars

\* A GRPCServer with any pair of broker addresses in its config record, asked
\* for its Config() again and again
PlainCfg == Cfg(TRUE, FALSE, FALSE, FALSE, VP12, FALSE, FALSE)

InitConfig ==
    /\ InitClients([c \in Clients |-> PlainCfg])
    /\ grpcServer \in Servers
    /\ stderrRelay = NoRelay

NextConfig == \E t \in Callers : ServerConfig(t)

SpecConfig == InitConfig /\ [][NextConfig]_vars

\* logStderr follows a pipe on which the plugin writes any bytes of Pipes
\* before the pipe ends
InitStderr ==
    /\ InitClients([c \in Clients |-> PlainCfg])
    /\ grpcServer = NoServer
    /\ stderrRelay \in {Relay(pipe) : pipe \in Pipes}

NextStderr == LogStderrLine \/ LogStderrReturn

SpecStderr == InitStderr /\ [][NextStderr]_vars

\* The plugin's side of one GRPCServer: Init, then Serve in a goroutine, and
\* Stop and GracefulStop called one after the other in any order and number
InitServer ==
    /\ InitClients([c \in Clients |-> PlainCfg])
    /\ grpcServer = NoServer
    /\ stderrRelay = NoRelay

NextServer ==
    \/ ServerInit
    \/ ServeAccept
    \/ ServeReturn
    \/ ServeDone
    \/ \E kind \in {"Stop", "GracefulStop"} : StopServer(kind)
    \/ StopBroker

SpecServer == InitServer /\ [][NextServer]_vars

\* Clients that differ in their TLS configuration: none, one the host
\* supplies, AutoMTLS, or both
CertConfigs ==
    {[Cfg(TRUE, FALSE, FALSE, FALSE, VP12, FALSE, FALSE)
        EXCEPT !.TLSConfig = tls, !.AutoMTLS = auto] :
        tls \in {NoTLS, HostTLS}, auto \in BOOLEAN}

InitCert == \E cfg \in CertConfigs : InitWith([c \in Clients |-> cfg])

\* One host thread uses the client; the plugin prints a handshake line with a
\* sixth field, or stays silent, and may exit.
NextCert ==
    \/ \E o \in {"Start", "Client", "Kill"} : Call("c1", 1, o)
    \/ StartCached("c1", 1)
    \/ StartAutoMTLSFail("c1", 1)
    \/ StartObtainFail("c1", 1)
    \/ StartSelect("c1", 1)
    \/ \E g \in FirstGen : StartRunnerStartFail("c1", 1, g) \/ StartLaunch("c1", 1, g)
    \/ Dispense("c1", 1)
    \/ KillStep("c1", 1)
    \/ TaskStep("c1", 1)
    \/ \E line \in CertLines : ProcWrite("c1", 1, line)
    \/ ProcWrite("c1", 1, LineOk2)
    \/ ProcExit("c1", 1)

SpecCert == InitCert /\ [][NextCert]_vars

\* ------------------------------------------------------------------ claims
\* thread t's Start call on c1 returned res in the last step
StartReturned(t, res) ==
    ret.c = "c1" /\ ret.t = t /\ ret.op = "Start" /\ ret.res = res

\* C1: once c1 has an address, the address never changes, no step obtains a
\* runner or starts a process, and every thread that runs Start (called as
\* Start, sequentially or concurrently with other calls) leaves it in one step
\* that returns exactly that address and no error.
C1_StartIdempotent ==
    [][ address["c1"] # NoAddr =>
          /\ address'["c1"] = address["c1"]
          /\ ngen' = ngen /\ runner'["c1"] \in {runner["c1"], 0}
          /\ \A g \in Gens : proc["c1"][g] = "none" => proc'["c1"][g] = "none"
          /\ \A t \in Callers :
                (pc["c1"][t] = "start" /\ op["c1"][t] = "Start"
                   /\ pc'["c1"][t] # "start")
                => (ret' = Ret("c1", t, "Start", "ok", address["c1"], NoDetail)) ]_vars

\* C1 witness: a Start returns the address after the process-wait task has
\* recorded the exit, which it can do only after the first Start has returned
C1_Witness ==
    /\ \E t \in Callers : StartReturned(t, "ok")
    /\ ret.addr = address["c1"] /\ ret.addr # NoAddr
    /\ exited["c1"]

\* C2: over every sequence of Start, Client and Kill calls on c1, Runner.Start
\* is invoked at most once (a runner's process state leaves "none" exactly when
\* Runner.Start is invoked on it).
C2_RunnerStartAtMostOnce ==
    Cardinality({g \in Gens : proc["c1"][g] # "none"}) <= 1

\* c1 has no runner, or one without ID
NoRunnerToKill == runner["c1"] = 0 \/ proc["c1"][runner["c1"]] = "failed_noid"

KillReturnedLive ==
    /\ ret.c = "c1" /\ ret.op = "Kill" /\ ret.res = "killed"
    /\ proc["c1"][ret.detail.runner] = "exited"

\* every task of c1 has called clientWaitGroup.Done (the process-wait task
\* may still have its deferred cancel to run)
TasksFinished ==
    \A g \in Gens :
        /\ logStderr["c1"][g] \in {"none", "done"}
        /\ waiter["c1"][g] \in {"none", "cancel", "done"}
        /\ scanner["c1"][g] \in {"none", "done"}
        /\ drain["c1"][g] \in {"none", "done"}


\* C4: when a Kill that read a runner with a process returns, every task of
\* c1 has finished, the exit is recorded, the runner's socket directory is
\* removed and the runner reference is cleared.
C4_KillReturnsClean ==
    KillReturnedLive =>
        /\ TasksFinished
        /\ exited["c1"]
        /\ config["c1"].RunnerFunc => dirs["c1"][ret.detail.runner] = "removed"
        /\ runner["c1"] = 0

\* C5: with two callers, every Kill call returns; and whenever a Kill returns
\* on the started client (by its deferred part or because another Kill has
\* already cleared the runner) the state is that of a single Kill: runner
\* cleared, every task finished, exit recorded, socket directory removed.
C5_ConcurrentKill ==
    /\ [](( /\ ret.c = "c1" /\ ret.op = "Kill" /\ address["c1"] # NoAddr) =>
            /\ runner["c1"] = 0
            /\ TasksFinished
            /\ exited["c1"]
            /\ \A g \in Gens : proc["c1"][g] \in {"running", "exited"} =>
                    /\ proc["c1"][g] = "exited"
                    /\ config["c1"].RunnerFunc => dirs["c1"][g] = "removed")
    /\ \A t \in Callers : (op["c1"][t] = "Kill") ~> (op["c1"][t] = "none")

\* C5 witness: one Kill of the started client returns while the other caller's
\* Kill, which read the same runner, is still in its deferred part
C5_Witness ==
    /\ ret.c = "c1" /\ ret.op = "Kill" /\ ret.res = "killed" /\ ret.t = 1
    /\ address["c1"] # NoAddr
    /\ op["c1"][2] = "Kill" /\ pc["c1"][2] = "k_clear"
    /\ kRunner["c1"][2] = ret.detail.runner

\* C10: every Start call ends (it returns, or unwinds with a panic); a Start that ends by the start-timeout returns
\* the timeout error with the address unset and the lock free; and a Kill
\* waiting for the lock gets it.
C10_StartReturns ==
    /\ [](( /\ ret.c = "c1" /\ ret.op = "Start" /\ ret.detail.case = "timeout") =>
            /\ ret.res = "err_timeout"
            /\ ret.addr = NoAddr /\ address["c1"] = NoAddr
            /\ mu["c1"] = 0)
    /\ \A t \in Callers : (op["c1"][t] = "Start") ~> (op["c1"][t] = "none")
    /\ \A t \in Callers : (pc["c1"][t] = "kill") ~> (pc["c1"][t] # "kill")

\* C10 witness: Start returns the timeout error, the process having neither
\* written a line nor exited, while the other caller's Kill waits for the lock
C10_Witness ==
    /\ ret.c = "c1" /\ ret.op = "Start" /\ ret.res = "err_timeout" /\ ret.t = 1
    /\ ~ret.detail.early /\ stdout["c1"][ret.detail.runner] = <<>>
    /\ pc["c1"][2] = "kill"

\* C6: CleanupClients starts a Kill for exactly the clients constructed with
\* Managed = true, has returned only when each of those Kill calls has
\* returned, and itself changes nothing of any client; for a client
\* constructed with Managed = false no Kill is ever started.
C6_CleanupClients ==
    /\ [](\A c \in Clients :
            /\ (cleanupPc = "returned" /\ config[c].Managed) => pc[c][0] = "done"
            /\ ~config[c].Managed => (pc[c][0] = "idle" /\ op[c][0] = "none"))
    /\ [][ cleanupPc' # cleanupPc =>
              /\ UNCHANGED <<clientVars, procVars, taskVars, ngen, rpcNews, dirs,
                             sRunner, kRunner, kDir, managedClients>>
              /\ \A c \in Clients :
                    IF cleanupPc = "spawn" /\ config[c].Managed
                    THEN pc'[c][0] = "kill" /\ op'[c][0] = "Kill"
                    ELSE pc'[c] = pc[c] /\ op'[c] = op[c] ]_vars

\* C6 witness: CleanupClients has returned after the Kill of the managed c1
\* needed the forced kill, while the unmanaged c2 still has its runner and its
\* running process
C6_Witness ==
    /\ cleanupPc = "returned"
    /\ config["c1"].Managed /\ processKilled["c1"] /\ exited["c1"]
    /\ runner["c1"] = 0
    /\ ~config["c2"].Managed /\ runner["c2"] = 1 /\ proc["c2"][1] = "running"
    /\ address["c2"] # NoAddr

\* a Start call on c1 that received a value from linesCh returned (or unwound
\* with a panic) in the last step
StartConsumedLine ==
    ret.c = "c1" /\ ret.op = "Start" /\ ret.detail.case = "line"

\* the application-protocol-version field (the second field) of the line the
\* returning Start consumed; -1 when it is missing or not a number
OfferedVersion ==
    IF Len(Parts(ret.detail.line)) >= 2 THEN Atoi(Parts(ret.detail.line)[2]) ELSE -1

\* C7: when Start has consumed a well-formed handshake line, the negotiation
\* is decided by the line's application-protocol-version field: a key of
\* VersionedPlugins becomes the negotiated version, with its plugin set; any
\* other version makes Start fail with the error naming that version and the
\* configured ones.
C7_NegotiatesOfferedVersion ==
    (StartConsumedLine /\ Len(Parts(ret.detail.line)) >= 4 /\ OfferedVersion # -1) =>
        LET vp == config["c1"].VersionedPlugins
        IN  IF OfferedVersion \in DOMAIN vp
            THEN /\ ret.res # "err_incompatible_api_version"
                 /\ negotiatedVersion["c1"] = OfferedVersion
                 /\ negotiatedPlugins["c1"] = vp[OfferedVersion]
            ELSE /\ ret.res = "err_incompatible_api_version"
                 /\ ret.detail.info = <<OfferedVersion, DOMAIN vp>>

\* C8: a Start that consumed a line of fewer than four fields (the empty line
\* included) returns an error, not a panic and not success, and leaves the
\* address unset.
C8_MalformedLineIsError ==
    (StartConsumedLine /\ Len(Parts(ret.detail.line)) < 4) =>
        /\ ret.res \notin {"ok", "panic"}
        /\ ret.addr = NoAddr /\ address["c1"] = NoAddr

\* C9: when the process has exited without writing a line and Start leaves
\* its select for another reason than the start-timeout, Start returns the
\* premature-exit error.
C9_PrematureExitError ==
    ( /\ ret.c = "c1" /\ ret.op = "Start" /\ ret.detail.early
      /\ ret.detail.case # "timeout" )
    => ret.res = "err_exited_before_connect"

\* C11: whenever a Start call in which a runner was obtained returns an error,
\* that call has invoked runner.Kill on the runner.
C11_KillOnStartError ==
    ( /\ ret.c = "c1" /\ ret.op = "Start" /\ ret.res \notin {"ok", "panic", "none"}
      /\ ret.detail.runner # 0 )
    => ret.detail.killed

\* a Start call on c1 was rejected by the configuration validation or by the
\* integrity verification in the last step
StartRejected ==
    /\ ret.c = "c1" /\ ret.op = "Start"
    /\ ret.res \in {"err_exactly_one", "err_secure_and_reattach",
                    "err_verifying_checksum", "err_checksums_do_not_match"}

\* C12: a step in which Start is rejected by the configuration validation or
\* by the integrity verification obtains no runner and starts no process, and
\* leaves the address and the runner reference unset.
C12_RejectedStartLeavesUnset ==
    [][ StartRejected' =>
          /\ UNCHANGED <<ngen, proc, dirs>>
          /\ address'["c1"] = NoAddr
          /\ runner'["c1"] = 0 ]_vars

\* C13: every call of Check with a checksum and a hash configured, on a
\* readable file, returns true exactly when the digest of the file's bytes is
\* the configured checksum and false otherwise, whatever calls came before;
\* with an empty checksum it returns the no-checksum error, else with no hash
\* the no-hash error.
C13_CheckDependsOnFileOnly ==
    (ret.c = "c1" /\ ret.op = "Check") =>
        LET s == config["c1"]
            file == ret.detail.file
        IN  IF Len(s.Checksum) = 0 THEN ret.res = "ErrSecureConfigNoChecksum"
            ELSE IF ~s.Hash.set THEN ret.res = "ErrSecureConfigNoHash"
            ELSE file.readable =>
                    ret.res = (IF ChecksumOf(file.bytes) = s.Checksum
                               THEN "true" ELSE "false")

\* the sixth field of the line the returning Start consumed, when it is one
\* blob of text
SixthBlob == Parts(ret.detail.line)[6][1]
StartConsumedBlob ==
    /\ StartConsumedLine
    /\ Len(Parts(ret.detail.line)) >= 6
    /\ Len(Parts(ret.detail.line)[6]) = 1
    /\ SixthBlob \in DOMAIN Blobs

\* C14: when the sixth field of the consumed line is base64 text that decodes
\* to 50 bytes or fewer, Start does not fail on the certificate and does not
\* touch the TLS config's pools with it.
C14_ShortSixthFieldIgnored ==
    ( /\ StartConsumedBlob
      /\ Blobs[SixthBlob].b64 /\ Blobs[SixthBlob].bytes <= CertMinLen )
    => /\ ret.res \notin {"err_parsing_server_cert", "panic"}
       /\ config["c1"].TLSConfig.RootCAs # SixthBlob
       /\ config["c1"].TLSConfig.ClientCAs # SixthBlob

\* C15: when the consumed line offers a certificate (a sixth field that is
\* not base64 text of 50 bytes or fewer) and Start got as far as the
\* certificate, Start either succeeds with the certificate installed as root
\* CA and client CA of the TLS config, or returns the malformed-certificate
\* error; it does not panic.
C15_CertificateInstalledOrError ==
    ( /\ StartConsumedBlob
      /\ ~(Blobs[SixthBlob].b64 /\ Blobs[SixthBlob].bytes <= CertMinLen)
      /\ ret.res # "err_plugin_to_host" )
    => \/ /\ ret.res = "ok"
          /\ config["c1"].TLSConfig.set
          /\ config["c1"].TLSConfig.RootCAs = SixthBlob
          /\ config["c1"].TLSConfig.ClientCAs = SixthBlob
       \/ ret.res = "err_parsing_server_cert"

\* C16: over every interleaving of calls on c1 at most one RPC client handle
\* is ever constructed, and every Client() that succeeds returns it; a
\* Client() call gets to the handle only after its Start has returned the
\* address, and a Client() call that returns an error constructs nothing.
C16_HandleConstructedOnce ==
    /\ [](rpcNews["c1"] <= 1)
    /\ []((ret.c = "c1" /\ ret.op = "Client" /\ ret.res = "ok") =>
            (rpcClient["c1"] = 1 /\ rpcNews["c1"] = 1))
    /\ [](\A t \in Callers :
            (op["c1"][t] = "Client" /\ pc["c1"][t] = "dispense") =>
                address["c1"] # NoAddr)
    /\ [][ (ret'.c = "c1" /\ ret'.op = "Client" /\ ret'.res # "ok") =>
              rpcNews' = rpcNews ]_vars

\* C16 witness: Client() returns the handle to caller 1 while caller 2's Kill
\* has already got the handle through Client() and closed it
C16_Witness ==
    /\ ret.c = "c1" /\ ret.op = "Client" /\ ret.res = "ok" /\ ret.t = 1
    /\ op["c1"][2] = "Kill" /\ pc["c1"][2] = "k_grace"

\* c1 is configured to reattach: Reattach set, Cmd and RunnerFunc not, and no
\* SecureConfig
ReattachOnly ==
    /\ config["c1"].Reattach /\ ~config["c1"].Cmd /\ ~config["c1"].RunnerFunc
    /\ ~config["c1"].SecureConfig

\* C17: with Reattach configured, Start obtains no runner and starts no
\* process, and when it succeeds the client has the address and the protocol
\* version of the ReattachConfig.
C17_StartReattaches ==
    (ReattachOnly /\ ret.c = "c1" /\ ret.op = "Start") =>
        /\ ngen["c1"] = 0
        /\ \A g \in Gens : proc["c1"][g] = "none"
        /\ ret.res = "ok" =>
              /\ ret.addr = config["c1"].ReattachConfig.Addr
              /\ address["c1"] = config["c1"].ReattachConfig.Addr
              /\ negotiatedVersion["c1"] = config["c1"].ReattachConfig.ProtocolVersion

\* C18: with a ReattachConfig in test mode, no Kill ever invokes runner.Kill
\* (after which Kill is at the point where it records processKilled).
C18_TestModeNeverForceKills ==
    (ReattachOnly /\ config["c1"].ReattachConfig.Test) =>
        /\ ~processKilled["c1"]
        /\ \A t \in Callers : pc["c1"][t] # "k_mark"

\* C19: the text Config() returns, base64-decoded and then JSON-decoded, is the
\* pair of stdout/stderr broker addresses of the server's config record
C19_ConfigRoundTrip ==
    ret.op = "Config" =>
        LET d == Base64Decode(ret.detail.text)
        IN  /\ d.ok
            /\ Unmarshal(d.text) = [ok |-> TRUE, config |-> grpcServer.config]

\* the bytes the raw sink received, in order
RECURSIVE Sink(_)
Sink(out) ==
    IF out = <<>> THEN <<>>
    ELSE (IF Head(out).kind = "write" THEN Head(out).data ELSE <<>>) \o Sink(Tail(out))

\* the logical lines of a pipe, each without its "\n" or "\r\n", and the bytes
\* after the last newline
RECURSIVE LinesOf(_)
LinesOf(pipe) ==
    IF \A i \in 1..Len(pipe) : pipe[i] # "\n" THEN [lines |-> <<>>, tail |-> pipe]
    ELSE LET nl == CHOOSE i \in 1..Len(pipe) :
                       pipe[i] = "\n" /\ \A j \in 1..(i - 1) : pipe[j] # "\n"
             drop == IF nl > 1 /\ pipe[nl - 1] = "\r" THEN 2 ELSE 1
             more == LinesOf(SubSeq(pipe, nl + 1, Len(pipe)))
         IN  [lines |-> <<SubSeq(pipe, 1, nl - drop)>> \o more.lines,
              tail |-> more.tail]

\* every line followed by one newline
RECURSIVE Terminated(_)
Terminated(lines) ==
    IF lines = <<>> THEN <<>> ELSE Head(lines) \o <<"\n">> \o Terminated(Tail(lines))

\* every log event for a line comes after the write of the bytes it logs
WrittenBeforeLogged ==
    LET out == stderrRelay.out
    IN  \A i \in 1..Len(out) :
            out[i].kind = "log" =>
                \/ i > 1 /\ out[i - 1] = Written(out[i].data)
                \/ i > 2 /\ out[i - 1] = Written(<<"\n">>)
                         /\ out[i - 2] = Written(out[i].data)

\* only a whole line no longer than the read buffer is parsed as a structured
\* record or logged above debug level
PiecesLoggedAtDebug ==
    LET out == stderrRelay.out
        l == LinesOf(stderrRelay.pipe)
        whole == {l.lines[i] : i \in 1..Len(l.lines)} \cup {l.tail}
    IN  \A i \in 1..Len(out) :
            out[i].kind = "log" /\ (out[i].parsed \/ out[i].level # "debug")
                => out[i].data \in whole /\ Len(out[i].data) <= stdErrBufferSize

C21_ForceKillIffNotGraceful ==
    [][ \A t \in Callers :
          LET p == pc["c1"][t]
              q == pc'["c1"][t]
              kill == op["c1"][t] = "Kill" /\ q # p
              done == doneCtx["c1"] # 0 /\ ctxDone["c1"][doneCtx["c1"]]
          IN  /\ (kill /\ q = "k_force") =>
                    \/ p = "kill" /\ address["c1"] = NoAddr
                    \/ p \in {"start", "select"}
                    \/ p = "dispense" /\ rpcClient'["c1"] = 0
                    \/ p = "k_close"
                    \/ p = "k_grace"
              /\ (kill /\ p = "kill" /\ address["c1"] = NoAddr /\ ret'.op # "Kill")
                    => q = "k_force"
              /\ (kill /\ p = "dispense" /\ rpcClient'["c1"] = 0) => q = "k_force"
              /\ (kill /\ p = "dispense" /\ rpcClient'["c1"] # 0) => q = "k_close"
              /\ (kill /\ p = "k_close") => q \in {"k_grace", "k_force"}
              /\ (kill /\ p = "k_grace") =>
                    \/ q = "k_force"
                    \/ q = "k_wait" /\ done
              /\ (kill /\ p = "k_force") =>
                    /\ q = "k_mark"
                    /\ proc' = [proc EXCEPT !["c1"][kRunner["c1"][t]] = RunnerKill(@)]
              /\ (kill /\ p = "k_mark") => q = "k_wait" /\ processKilled'["c1"]
              /\ (kill /\ p \in {"k_grace", "k_wait", "k_clear"} /\ q # "k_force") =>
                    /\ q \in {"k_wait", "k_clear", "idle"}
                    /\ UNCHANGED <<proc, processKilled>> ]_vars

\* C21 witness: a Kill of the started client returns by the graceful path:
\* the process has exited by itself, nothing was killed
C21_Witness ==
    /\ ret.c = "c1" /\ ret.op = "Kill" /\ ret.res = "killed"
    /\ address["c1"] # NoAddr /\ rpcClient["c1"] # 0
    /\ exited["c1"] /\ ~processKilled["c1"]

\* C22: Killed is 0 as long as CleanupClients has not been called; it is 1
\* when the Kill that CleanupClients runs for a managed client begins, and
\* while and after it runs; no step takes it from 1 back to 0.
C22_KilledFlag ==
    /\ [](cleanupPc = "idle" => Killed = 0)
    /\ [](\A c \in Clients :
            (pc[c][0] # "idle" \/ op[c][0] # "none") => Killed = 1)
    /\ [][Killed = 1 => Killed' = 1]_vars

\* C22 witness: the flag is set, CleanupClients waits, and the Kill it runs
\* for the started c1 is at its first step
C22_Witness ==
    /\ Killed = 1 /\ cleanupPc = "wait"
    /\ pc["c1"][0] = "kill" /\ op["c1"][0] = "Kill"
    /\ address["c1"] # NoAddr

\* C23: the process-wait task of a runner is past its runner.Wait only when
\* the stderr relay of that runner has returned, and the step in which it
\* gets there is taken with the relay already returned.
C23_WaitAfterStderrRelay ==
    /\ [](\A g \in Gens :
            waiter["c1"][g] \in {"lock", "cancel", "done"}
                => logStderr["c1"][g] = "done")
    /\ [][ \A g \in Gens :
              (waiter["c1"][g] = "wait" /\ waiter'["c1"][g] # "wait")
                  => logStderr["c1"][g] = "done" ]_vars

\* C23 witness: the task of the second runner has called runner.Wait, its
\* relay and the first runner's having returned
C23_Witness ==
    /\ waiter["c1"][2] = "lock"
    /\ logStderr["c1"][2] = "done" /\ logStderr["c1"][1] = "done"

\* C24: whenever the completion context of c1 is done the exited flag is set;
\* a context becomes done only in the step in which a process-wait task, past
\* runner.Wait and c.exited = true, runs its deferred cancel (no step of a
\* Start, of a timer or of a Kill cancels one); and once the completion
\* context of c1 is done it is done in every later state.
C24_CompletionContext ==
    /\ [](DoneCtxDone("c1") => exited["c1"])
    /\ [][ ctxDone' # ctxDone =>
              /\ exited["c1"]
              /\ \E g \in Gens :
                    /\ waiter["c1"][g] = "cancel" /\ waiter'["c1"][g] = "done"
                    /\ ctxDone' = [ctxDone EXCEPT !["c1"][waiterCancel["c1"][g]] = TRUE]
              /\ \A t \in Callers : pc'["c1"][t] = pc["c1"][t] ]_vars
    /\ [][ DoneCtxDone("c1") => DoneCtxDone("c1")' ]_vars

\* C25: a line leaves the stdout of a runner of c1 either in the step in
\* which the Start that launched the runner leaves its select, before any
\* drain task of the runner exists, or in a step of the runner's drain task,
\* which changes neither the address nor the negotiated version and plugins
\* nor the TLS config; a Start takes at most one line; every step in which a
\* Start leaves its select (success, error, timeout or panic) launches the
\* drain task; and a line the scanner task has to hand over is always taken
\* in the end.
C25_OneLineThenDrain ==
    /\ [][ \A g \in Gens :
              stdout'["c1"][g] # stdout["c1"][g]
                  /\ Len(stdout'["c1"][g]) < Len(stdout["c1"][g])
              => /\ stdout'["c1"][g] = Tail(stdout["c1"][g])
                 /\ \/ /\ drain["c1"][g] = "none" /\ sRunner["c1"] = g
                       /\ \E t \in Callers :
                             pc["c1"][t] = "select" /\ pc'["c1"][t] # "select"
                    \/ /\ drain["c1"][g] = "run"
                       /\ \A t \in Callers : pc'["c1"][t] = pc["c1"][t]
                       /\ UNCHANGED <<address, negotiatedVersion,
                                      negotiatedPlugins, config>> ]_vars
    /\ [][ \A t \in Callers :
              (pc["c1"][t] = "select" /\ pc'["c1"][t] # "select")
              => drain'["c1"][sRunner["c1"]] = "run" ]_vars
    /\ \A g \in Gens : LineReady("c1", g) ~> ~LineReady("c1", g)

\* C25 witness: the plugin has written all its lines; Start took the first
\* and returned the address, the drain task took the rest
C25_Witness ==
    /\ address["c1"] # NoAddr
    /\ drain["c1"][1] = "run" /\ scanner["c1"][1] = "scan"
    /\ canWrite["c1"][1] = 0 /\ stdout["c1"][1] = <<>>
    /\ proc["c1"][1] = "running"

\* C26: a socket directory of c1 is removed only by a step of a Kill of c1
\* (its deferred os.RemoveAll), and when a Kill of c1 returns no directory a
\* Start of c1 has made is left.
C26_SocketDirRemovedByKill ==
    /\ [][ \A g \in Gens :
              (dirs["c1"][g] = "exists" /\ dirs'["c1"][g] # "exists")
              => \E t \in Callers :
                    /\ op["c1"][t] = "Kill"
                    /\ pc["c1"][t] = "k_wait" /\ pc'["c1"][t] = "k_clear" ]_vars
    /\ [](ret.c = "c1" /\ ret.op = "Kill"
            => \A g \in Gens : dirs["c1"][g] # "exists")

\* C27: over every sequence of Stop and GracefulStop calls, one after the
\* other, on the initialised server, each call stops the RPC server; the
\* broker is closed once, by the first call, which clears the reference; a
\* later call does nothing to the broker.
C27_BrokerClosedOnce ==
    /\ [](grpcServer.serverStops = grpcServer.stops)
    /\ [](grpcServer.brokerCloses =
            IF grpcServer.stops = 0 \/ (grpcServer.stops = 1 /\ grpcServer.stop # "idle")
            THEN 0 ELSE 1)
    /\ [](grpcServer.stops >= 1 /\ grpcServer.stop = "idle" => grpcServer.broker = 0)
    /\ [][ (grpcServer.stops > 1 /\ grpcServer'.stops = grpcServer.stops)
              => /\ grpcServer'.broker = grpcServer.broker
                 /\ grpcServer'.brokerCloses = grpcServer.brokerCloses ]_vars

\* C27 witness: a GracefulStop after a Stop has returned
C27_Witness ==
    /\ ret.op = "GracefulStop"
    /\ grpcServer.stops = 2 /\ grpcServer.stop = "idle"
    /\ grpcServer.brokerCloses = 1

\* C28: DoneCh is closed at most once, and is closed when Serve has returned;
\* the step that closes it is the end of Serve, after s.server.Serve has
\* returned, and it logs the error when there is one; no step of Init, Stop
\* or GracefulStop changes DoneCh.
C28_DoneChClosedByServe ==
    /\ [](grpcServer.doneCloses <= 1)
    /\ [](grpcServer.doneCloses = IF grpcServer.DoneCh = "closed" THEN 1 ELSE 0)
    /\ [](grpcServer.serve = "done" => grpcServer.DoneCh = "closed")
    /\ [][ grpcServer'.DoneCh # grpcServer.DoneCh =>
              /\ grpcServer.DoneCh = "open" /\ grpcServer'.DoneCh = "closed"
              /\ grpcServer.serve = "returned" /\ grpcServer'.serve = "done"
              /\ grpcServer.serveErr # "nil" => grpcServer'.logged
              /\ grpcServer'.stop = grpcServer.stop
              /\ grpcServer'.server = grpcServer.server ]_vars

\* C28 witness: Serve has returned with an error, logged it and closed DoneCh
\* while a Stop is between stopping the server and closing the broker
C28_Witness ==
    /\ ret.op = "Serve" /\ ret.res = "ok"
    /\ grpcServer.DoneCh = "closed" /\ grpcServer.serveErr # "nil"
    /\ grpcServer.logged /\ grpcServer.stop = "Stop"

====
